---- MODULE Spec2Model ----
\* BotFactory AI: the Telegram webhook handler, the chat pipeline of
\* ChatService, the Gemini generation client and the Telegram adapter,
\* modelled as a state machine over the database tables they read and write.
EXTENDS Integers, Sequences, FiniteSets, TLC

\* ---------------------------------------------------------------- values

\* Texts are sequences of characters, so that emptiness, case folding and
\* substring search are computed and not assumed.
Hi == <<"h", "i">>
Ok == <<"o", "k">>
EmptyText == << >>
Reply == <<"r", "e">>
CustomFallback == <<"c", "f">>

\* ---------------------------------------------------------------- bounds

\* Webhook requests received in one run.
MaxRequests == 2
\* Times the clock advances in one run.
MaxTicks == 3
\* Rows a direct caller of the store appends.
MaxRows == 3
\* Payment webhook calls answered in one run.
MaxPayCalls == 2
\* Payments created in one run.
MaxPayments == 1
\* Requests to the REST API in one run.
MaxApiRequests == 2
\* Photo variants in one Telegram message.
MaxPhotos == 3

\* ---------------------------------------------------------------- program constants

SessionWindowMinutes == 30
HistoryLimit == 10
SearchLimit == 3
QueryPrefixLen == 50
ContentPrefixLen == 500

\* The clock advances by half a session window at a time, so that a row can be
\* younger than the window, exactly as old, or older.
TickMinutes == SessionWindowMinutes \div 2
MaxTime == MaxTicks * TickMinutes

\* ---------------------------------------------------------------- tables

Handlers == {"h1", "h2"}
BotIds == {1, 2, 3}
ChatIds == {"u1", "u2"}
Tokens == {"tok1", "tok2", "tok3", "tok0"}

\* A dict is a function on the keys it holds; d.get(k) is None when k is
\* missing, which Has tells apart.
Has(d, k) == k \in DOMAIN d
EmptyDict == [k \in {} |-> 0]

\* The bots table as the pipeline finds it: two active Telegram bots, the second
\* with a settings["fallback_message"], and one deactivated bot whose
\* fallback_message is the empty string. "tok0" is no bot's token.
InitialBots ==
    [b \in BotIds |->
        CASE b = 1 -> [id |-> 1, user_id |-> 1, token |-> "tok1", platform |-> "telegram",
                       is_active |-> TRUE, language |-> "ru",
                       settings |-> EmptyDict,
                       total_messages |-> 0, last_message_at |-> -1]
          [] b = 2 -> [id |-> 2, user_id |-> 2, token |-> "tok2",
                       platform |-> "telegram", is_active |-> TRUE, language |-> "en",
                       settings |-> [fallback_message |-> CustomFallback],
                       total_messages |-> 0, last_message_at |-> -1]
          [] OTHER -> [id |-> 3, user_id |-> 2, token |-> "tok3",
                       platform |-> "telegram", is_active |-> FALSE, language |-> "uz",
                       settings |-> [fallback_message |-> EmptyText],
                       total_messages |-> 0, last_message_at |-> -1]]

\* The knowledge_base table: an active FAQ of bot 1 whose content holds "hi",
\* a deactivated text item of bot 1 that holds it too, a product of bot 2.
InitialKnowledge ==
    << [id |-> 1, bot_id |-> 1, is_active |-> TRUE, source_type |-> "faq",
       title |-> <<"t">>, content |-> <<"H", "i", "!">>,
       question |-> <<"q">>, answer |-> <<"a">>, extra_data |-> EmptyDict],
      [id |-> 2, bot_id |-> 1, is_active |-> FALSE, source_type |-> "text",
       title |-> <<"t">>, content |-> <<"h", "i">>,
       question |-> <<>>, answer |-> <<>>, extra_data |-> EmptyDict],
      [id |-> 3, bot_id |-> 2, is_active |-> TRUE, source_type |-> "product",
       title |-> <<"p">>, content |-> <<"o", "k">>,
       question |-> <<>>, answer |-> <<>>, extra_data |-> [price |-> <<"9">>]] >>

\* The users table: the owner of bot 1 on the free plan, the owner of bots 2
\* and 3 on the starter plan, who is an admin. Usernames are stored
\* lower-cased; a subscription_expires_at of -1 is NULL.
InitialUsers ==
    << [id |-> 1, email |-> "a@x", username |-> Hi, is_active |-> TRUE,
       is_banned |-> FALSE, is_admin |-> FALSE,
       subscription_type |-> "free", subscription_expires_at |-> -1],
      [id |-> 2, email |-> "b@x", username |-> Ok, is_active |-> TRUE,
       is_banned |-> FALSE, is_admin |-> TRUE,
       subscription_type |-> "starter", subscription_expires_at |-> MaxTime] >>

\* The payments table starts empty; POST /payments/create fills it.
InitialPayments == << >>

\* The clients of the REST API, each with at most one request in flight.
Clients == {"c1", "c2"}
IdleClient == [pc |-> "idle"]

\* ---------------------------------------------------------------- requests

\* A Telegram message object: its chat and its text field, which may be absent,
\* empty, or a text.
Messages ==
    { [chat |-> [id |-> "u1"]],
      [chat |-> [id |-> "u1"], text |-> EmptyText],
      [chat |-> [id |-> "u1"], text |-> Hi],
      [chat |-> [id |-> "u2"], text |-> Hi] }

\* An update object holds at most one of message, edited_message and
\* callback_query, as Telegram sends it.
Updates ==
    { [update_id |-> 1, message |-> m] : m \in Messages }
    \cup { [update_id |-> 1, edited_message |-> [chat |-> [id |-> "u1"], text |-> Ok]],
           [update_id |-> 1, callback_query |-> [id |-> "cb1"]],
           [update_id |-> 1] }

\* A request body: not JSON at all, JSON that is no object, or an update.
Bodies ==
    { [kind |-> "malformed"], [kind |-> "array"] }
    \cup { [kind |-> "object", payload |-> u] : u \in Updates }

\* The requests of a run: every body to bot 1, and one text message to each of
\* the other tokens.
Requests ==
    { [token |-> "tok1", body |-> b] : b \in Bodies }
    \cup { [token |-> t,
            body |-> [kind |-> "object",
                      payload |-> [update_id |-> 1,
                                   message |-> [chat |-> [id |-> "u1"], text |-> Hi]]]] :
           t \in Tokens \ {"tok1"} }

\* ---------------------------------------------------------------- text helpers

Min(a, b) == IF a < b THEN a ELSE b

\* s[:n]
Take(s, n) == SubSeq(s, 1, Min(n, Len(s)))

\* str.lower() on the model's alphabet.
LowerChar(c) == CASE c = "H" -> "h" [] c = "I" -> "i" [] c = "O" -> "o"
                  [] c = "K" -> "k" [] OTHER -> c
LowerText(t) == [i \in 1..Len(t) |-> LowerChar(t[i])]

\* content ILIKE '%query%': a case-insensitive substring test.
ILikeContains(content, query) ==
    \E i \in 1..(Len(content) - Len(query) + 1) :
        SubSeq(LowerText(content), i, i + Len(query) - 1) = LowerText(query)

\* The sequence s in reverse order.
Reversed(s) == [i \in 1..Len(s) |-> s[Len(s) + 1 - i]]

SeqToSet(s) == {s[i] : i \in 1..Len(s)}

\* ---------------------------------------------------------------- ChatService, pure parts

\* No knowledge context: Python's None. A rendered context is never empty.
NoContext == << >>

\* The static fallback texts of ChatService, one symbol each.
ChatFallbacks(language) ==
    CASE language = "ru" -> <<"Izvinite, ne mogu otvetit seychas. Poprobuyte pozzhe.">>
      [] language = "en" -> <<"Sorry, I can't respond right now. Please try again later.">>
      [] OTHER -> <<"Kechirasiz, hozir javob bera olmayapman. Iltimos, keyinroq qayta urinib ko'ring.">>

\* The fallback that ignores the bot's settings.
GetFallbackResponse_StaticOnly(bot) == ChatFallbacks(bot.language)

\* ChatService._get_fallback_response: settings["fallback_message"] when it is
\* there and truthy, else the static text of the bot's language.
GetFallbackResponse(bot) ==
    IF Has(bot.settings, "fallback_message") /\ bot.settings.fallback_message # EmptyText
    THEN bot.settings.fallback_message
    ELSE ChatFallbacks(bot.language)

\* GeminiService._get_fallback_response, returned when the backend's text is empty.
GeminiFallbacks(language) ==
    CASE language = "ru" -> <<"Izvinite, ne mogu otvetit seychas. Pozhaluysta, poprobuyte pozzhe.">>
      [] language = "en" -> <<"Sorry, I can't respond right now. Please try again later.">>
      [] OTHER -> <<"Kechirasiz, hozir javob bera olmayapman. Iltimos, keyinroq qayta urinib ko'ring.">>

\* ORDER BY created_at DESC. Timestamps have a finer resolution than the model's
\* minutes and two inserts are a database round trip apart, so of two rows
\* stamped in the same minute the one inserted later (the larger id) is later.
IsLater(r, q) ==
    \/ r.created_at > q.created_at
    \/ r.created_at = q.created_at /\ r.id >= q.id

RECURSIVE OrderByCreatedAtDesc(_)
OrderByCreatedAtDesc(rows) ==
    IF rows = {} THEN << >>
    ELSE LET first == CHOOSE r \in rows : \A q \in rows : IsLater(r, q)
         IN  <<first>> \o OrderByCreatedAtDesc(rows \ {first})

\* The session lookup with the window's edge included (>= for >).
GetOrCreateSession_InclusiveWindow(table, bot_id, platform_user_id, clock, uuid) ==
    LET recent == {r \in SeqToSet(table) :
                      /\ r.bot_id = bot_id
                      /\ r.platform_user_id = platform_user_id
                      /\ r.created_at >= clock - SessionWindowMinutes}
        found == Take(OrderByCreatedAtDesc(recent), 1)
    IN  IF found # << >> /\ found[1].session_id # 0
        THEN found[1].session_id
        ELSE uuid

\* ChatService._get_or_create_session: the session_id of the latest row of
\* (bot, user) stamped after now - 30 minutes when there is one and it is
\* truthy, else a new uuid4 (the next unused session number).
GetOrCreateSession(table, bot_id, platform_user_id, clock, uuid) ==
    LET recent == {r \in SeqToSet(table) :
                      /\ r.bot_id = bot_id
                      /\ r.platform_user_id = platform_user_id
                      /\ r.created_at > clock - SessionWindowMinutes}
        found == Take(OrderByCreatedAtDesc(recent), 1)
    IN  IF found # << >> /\ found[1].session_id # 0
        THEN found[1].session_id
        ELSE uuid

\* The history handed on as the query returns it, latest first.
GetChatHistory_NotReversed(table, bot_id, platform_user_id, limit) ==
    LET mine == {r \in SeqToSet(table) :
                    r.bot_id = bot_id /\ r.platform_user_id = platform_user_id}
        messages == Take(OrderByCreatedAtDesc(mine), limit)
    IN  [i \in 1..Len(messages) |->
            [role |-> IF messages[i].role = "user" THEN "user" ELSE "assistant",
             content |-> messages[i].content]]

\* ChatService._get_chat_history: the `limit` latest rows of (bot, user), read
\* latest first and handed on reversed, as {role, content}.
GetChatHistory(table, bot_id, platform_user_id, limit) ==
    LET mine == {r \in SeqToSet(table) :
                    r.bot_id = bot_id /\ r.platform_user_id = platform_user_id}
        messages == Take(OrderByCreatedAtDesc(mine), limit)
        back == Reversed(messages)
    IN  [i \in 1..Len(back) |->
            [role |-> IF back[i].role = "user" THEN "user" ELSE "assistant",
             content |-> back[i].content]]

\* The rows both knowledge queries select: the bot's active items whose content
\* holds query[:50], the first `limit` of them in table order.
MatchingKnowledge(kb, bot_id, query, limit) ==
    Take(SelectSeq(kb, LAMBDA item :
            /\ item.bot_id = bot_id
            /\ item.is_active
            /\ ILikeContains(item.content, Take(query, QueryPrefixLen))),
         limit)

\* One item rendered as a context fragment.
RenderItem(item) ==
    CASE item.source_type = "faq" ->
            <<"Savol: ">> \o item.question \o <<"\nJavob: ">> \o item.answer
      [] item.source_type = "product" ->
            <<"Mahsulot: ">> \o item.title \o <<"\nTavsif: ">> \o item.content
            \o <<"\nNarx: ">>
            \o (IF Has(item.extra_data, "price") THEN item.extra_data.price ELSE <<"N/A">>)
            \o <<" so'm">>
      [] OTHER -> item.title \o <<": ">> \o Take(item.content, ContentPrefixLen)

RECURSIVE JoinParts(_)
JoinParts(parts) ==
    IF Len(parts) = 1 THEN parts[1]
    ELSE parts[1] \o <<"\n\n---\n\n">> \o JoinParts(Tail(parts))

\* ChatService._search_knowledge_base: None when nothing matches, else the
\* fragments joined.
SearchKnowledgeBase(kb, bot_id, query) ==
    LET items == MatchingKnowledge(kb, bot_id, query, SearchLimit)
    IN  IF items = << >> THEN NoContext
        ELSE JoinParts([i \in 1..Len(items) |-> RenderItem(items[i])])

\* ChatService._get_context_ids
GetContextIds(kb, bot_id, query) ==
    LET items == MatchingKnowledge(kb, bot_id, query, 3)
    IN  [i \in 1..Len(items) |-> items[i].id]

\* ---------------------------------------------------------------- state

VARIABLES
    bots,            \* the bots table, by id
    knowledge_base,  \* the knowledge_base table, in table order
    chat_history,    \* the chat_history table, in insertion order
    now,             \* the clock, in minutes
    next_uuid,       \* the next session number uuid4 hands out
    received,        \* webhook requests received so far
    handler,         \* per handler task: its position and its locals
    outbox,          \* the calls made to the Telegram Bot API, in order
    answered,        \* the requests answered so far: token, body, HTTP status
    probe,           \* the last direct call of an operation and its result
    users,           \* the users table, in insertion order
    payments,        \* the payments table, in insertion order
    pay_answered,    \* the payment webhook calls answered so far, in order
    clients,         \* per API client: the request it has in flight
    api_answered     \* the API requests answered so far

\* The tables and logs of the REST API and of the payment webhooks, which the
\* Telegram pipeline never touches.
apiVars == <<users, payments, pay_answered, clients, api_answered>>

vars == <<bots, knowledge_base, chat_history, now, next_uuid, received,
          handler, outbox, answered, probe, users, payments, pay_answered,
          clients, api_answered>>

NoProbe == [op |-> "none"]

\* A handler task that holds no request.
IdleHandler ==
    [pc |-> "idle", req |-> 0, token |-> "", body |-> [kind |-> "none"],
     bot_id |-> 0, bot_total |-> 0, chat_id |-> "", text |-> EmptyText,
     session_id |-> 0, history |-> << >>, context |-> NoContext,
     context_ids |-> << >>, generate_calls |-> << >>,
     response |-> EmptyText, sent |-> "no", status |-> 0,
     trace |-> << >>, failed |-> {}, rows_before |-> 0, total_before |-> 0]

Init ==
    /\ bots = InitialBots
    /\ knowledge_base = InitialKnowledge
    /\ chat_history = << >>
    /\ now = 0
    /\ next_uuid = 1
    /\ received = 0
    /\ handler = [h \in Handlers |-> IdleHandler]
    /\ outbox = << >>
    /\ answered = << >>
    /\ probe = NoProbe
    /\ users = InitialUsers
    /\ payments = InitialPayments
    /\ pay_answered = << >>
    /\ clients = [c \in Clients |-> IdleClient]
    /\ api_answered = << >>

\* Time passes: between two requests, or while the generation backend works
\* (the database round trips of a handler are short against the clock's step).
Tick ==
    /\ \A h \in Handlers : handler[h].pc \in {"idle", "generate"}
    /\ now + TickMinutes <= MaxTime
    /\ now' = now + TickMinutes
    /\ UNCHANGED <<apiVars, probe, bots, knowledge_base, chat_history, next_uuid, received,
                   handler, outbox, answered>>

\* ---------------------------------------------------------------- telegram_webhook

\* select(Bot).where(token, platform == TELEGRAM, is_active)
FindBot(table, bot_token) ==
    {b \in DOMAIN table :
        /\ table[b].token = bot_token
        /\ table[b].platform = "telegram"
        /\ table[b].is_active}

\* payload.get("message") or payload.get("edited_message"): the first of the
\* two that is there and not an empty dict; EmptyDict stands for a falsy result.
MessageData(payload) ==
    IF Has(payload, "message") /\ payload.message # EmptyDict
    THEN payload.message
    ELSE IF Has(payload, "edited_message") THEN payload.edited_message
    ELSE EmptyDict

\* message_data.get("text", "")
MessageText(message_data) ==
    IF Has(message_data, "text") THEN message_data.text ELSE EmptyText

\* _process_telegram_message up to its first wait: a message without text is
\* skipped, any other goes to ChatService.process_message.
ProcessTelegramMessage_NoTextCheck(mine, message_data) ==
    [mine EXCEPT !.pc = "session", !.chat_id = message_data.chat.id,
                 !.text = MessageText(message_data)]

ProcessTelegramMessage(mine, message_data) ==
    IF MessageText(message_data) = EmptyText
    THEN [mine EXCEPT !.pc = "respond", !.status = 200,
                      !.chat_id = message_data.chat.id]
    ELSE [mine EXCEPT !.pc = "session", !.chat_id = message_data.chat.id,
                      !.text = MessageText(message_data)]

\* The handler from the request's arrival to its first wait inside the
\* pipeline: parse the body (400), find the bot (404; two matching rows make
\* scalar_one_or_none raise, 500), pick the message or the callback query
\* (payload.get on a body that is no object raises, 500).
StartRequest(h, bot_token, body) ==
    LET found == FindBot(bots, bot_token)
        base == [IdleHandler EXCEPT !.req = received + 1, !.token = bot_token,
                                    !.body = body,
                                    !.rows_before = Len(chat_history)]
        done(status) == [base EXCEPT !.pc = "respond", !.status = status]
    IN  IF body.kind = "malformed" THEN done(400)
        ELSE IF found = {} THEN done(404)
        ELSE IF Cardinality(found) > 1 THEN done(500)
        ELSE LET b == CHOOSE x \in found : TRUE
                 mine == [base EXCEPT !.bot_id = b,
                                      !.bot_total = bots[b].total_messages,
                                      !.total_before = bots[b].total_messages]
             IN  IF body.kind # "object"
                 THEN [mine EXCEPT !.pc = "respond", !.status = 500]
                 ELSE IF MessageData(body.payload) # EmptyDict
                 THEN ProcessTelegramMessage(mine, MessageData(body.payload))
                 ELSE IF Has(body.payload, "callback_query")
                 THEN [mine EXCEPT !.pc = "callback"]
                 ELSE [mine EXCEPT !.pc = "respond", !.status = 200]

\* A handler that answers an update it has answered before without running it.
Receive_SkipSeenUpdate(h, bot_token, body) ==
    /\ handler[h].pc = "idle"
    /\ received < MaxRequests
    /\ received' = received + 1
    /\ handler' = [handler EXCEPT ![h] =
          IF \E i \in DOMAIN answered :
                answered[i].token = bot_token /\ answered[i].body = body
          THEN [IdleHandler EXCEPT !.pc = "respond", !.status = 200,
                                   !.req = received + 1, !.token = bot_token,
                                   !.body = body,
                                   !.rows_before = Len(chat_history)]
          ELSE StartRequest(h, bot_token, body)]
    /\ UNCHANGED <<apiVars, probe, bots, knowledge_base, chat_history, now, next_uuid, outbox,
                   answered>>

Receive(h, bot_token, body) ==
    /\ handler[h].pc = "idle"
    /\ received < MaxRequests
    /\ received' = received + 1
    /\ handler' = [handler EXCEPT ![h] = StartRequest(h, bot_token, body)]
    /\ UNCHANGED <<apiVars, probe, bots, knowledge_base, chat_history, now, next_uuid, outbox,
                   answered>>

\* ---------------------------------------------------------------- ChatService.process_message

\* The step h has just run, noted in its trace.
Step(rec, name, next) ==
    [rec EXCEPT !.pc = next, !.trace = Append(@, name)]

\* except Exception: the pipeline is left where it stands and the fallback
\* text is returned to _process_telegram_message, which goes on to send it.
Raised(rec, name) ==
    [rec EXCEPT !.pc = "send", !.trace = Append(@, name),
                !.failed = @ \cup {name},
                !.response = GetFallbackResponse(bots[rec.bot_id])]

\* Base.created_at: a row is stamped with the time of its insert.
BaseCreatedAt(clock) == clock

\* The save that leaves the row's session_id out.
SaveMessage_NoSession(table, rec, role, content, context_ids) ==
    Append(table,
           [id |-> Len(table) + 1, bot_id |-> rec.bot_id,
            platform_user_id |-> rec.chat_id, session_id |-> 0,
            message_type |-> "text", role |-> role, content |-> content,
            context_ids |-> context_ids, created_at |-> BaseCreatedAt(now)])

\* ChatService._save_message: one more row, committed.
SaveMessage(table, rec, role, content, context_ids) ==
    Append(table,
           [id |-> Len(table) + 1, bot_id |-> rec.bot_id,
            platform_user_id |-> rec.chat_id, session_id |-> rec.session_id,
            message_type |-> "text", role |-> role, content |-> content,
            context_ids |-> context_ids, created_at |-> BaseCreatedAt(now)])

\* A session lookup that also sees the session another task has resolved for
\* the same (bot, user) and not yet stored.
ResolveSession_JoinsPending(h) ==
    LET rec == handler[h]
        pending == { g \in Handlers \ {h} :
                       /\ handler[g].pc = "save_inbound"
                       /\ handler[g].bot_id = rec.bot_id
                       /\ handler[g].chat_id = rec.chat_id }
        sid == IF pending # {}
               THEN handler[CHOOSE g \in pending : TRUE].session_id
               ELSE GetOrCreateSession(chat_history, rec.bot_id, rec.chat_id, now,
                                       next_uuid)
    IN  /\ rec.pc = "session"
        /\ handler' = [handler EXCEPT ![h] =
                          Step([rec EXCEPT !.session_id = sid], "session", "save_inbound")]
        /\ next_uuid' = IF sid = next_uuid THEN next_uuid + 1 ELSE next_uuid
        /\ UNCHANGED <<apiVars, probe, bots, knowledge_base, chat_history, now, received, outbox,
                       answered>>

\* ChatService.process_message, its first step: the session of the message.
ResolveSession(h) ==
    LET rec == handler[h]
        sid == GetOrCreateSession(chat_history, rec.bot_id, rec.chat_id, now, next_uuid)
    IN  /\ rec.pc = "session"
        /\ handler' = [handler EXCEPT ![h] =
                          Step([rec EXCEPT !.session_id = sid], "session", "save_inbound")]
        /\ next_uuid' = IF sid = next_uuid THEN next_uuid + 1 ELSE next_uuid
        /\ UNCHANGED <<apiVars, probe, bots, knowledge_base, chat_history, now, received, outbox,
                       answered>>

SaveInbound(h) ==
    LET rec == handler[h]
    IN  /\ rec.pc = "save_inbound"
        /\ chat_history' = SaveMessage(chat_history, rec, "user", rec.text, << >>)
        /\ handler' = [handler EXCEPT ![h] = Step(rec, "save_inbound", "history")]
        /\ UNCHANGED <<apiVars, probe, bots, knowledge_base, now, next_uuid, received, outbox,
                       answered>>

FetchHistory(h) ==
    LET rec == handler[h]
        history == GetChatHistory(chat_history, rec.bot_id, rec.chat_id, HistoryLimit)
    IN  /\ rec.pc = "history"
        /\ handler' = [handler EXCEPT ![h] =
                          Step([rec EXCEPT !.history = history], "history", "search")]
        /\ UNCHANGED <<apiVars, probe, bots, knowledge_base, chat_history, now, next_uuid,
                       received, outbox, answered>>

\* The knowledge query either answers or raises (the database is unreachable,
\* the statement fails); nothing around it catches but process_message itself.
SearchKnowledge(h, ok) ==
    LET rec == handler[h]
        context == SearchKnowledgeBase(knowledge_base, rec.bot_id, rec.text)
    IN  /\ rec.pc = "search"
        /\ handler' = [handler EXCEPT ![h] =
                          IF ok THEN Step([rec EXCEPT !.context = context],
                                          "search", "generate")
                          ELSE Raised(rec, "search")]
        /\ UNCHANGED <<apiVars, probe, bots, knowledge_base, chat_history, now, next_uuid,
                       received, outbox, answered>>

\* GeminiService.generate_response on the backend's outcome: a text, an empty
\* text (answered with the static text of the language), or any failure, which
\* is raised again as AIServiceError.
GenerateResponse(outcome, language) ==
    CASE outcome = "text" -> [raised |-> FALSE, text |-> Reply]
      [] outcome = "empty" -> [raised |-> FALSE, text |-> GeminiFallbacks(language)]
      [] OTHER -> [raised |-> TRUE, text |-> EmptyText]

Generate(h, outcome) ==
    LET rec == handler[h]
        language == bots[rec.bot_id].language
        call == [message |-> rec.text, context |-> rec.context,
                 history |-> rec.history, language |-> language]
        called == [rec EXCEPT !.generate_calls = Append(@, call)]
        result == GenerateResponse(outcome, language)
    IN  /\ rec.pc = "generate"
        /\ handler' = [handler EXCEPT ![h] =
                          IF result.raised THEN Raised(called, "generate")
                          ELSE Step([called EXCEPT !.response = result.text],
                                    "generate", "context_ids")]
        /\ UNCHANGED <<apiVars, probe, bots, knowledge_base, chat_history, now, next_uuid,
                       received, outbox, answered>>

ContextIds(h) ==
    LET rec == handler[h]
        ids == GetContextIds(knowledge_base, rec.bot_id, rec.text)
    IN  /\ rec.pc = "context_ids"
        /\ handler' = [handler EXCEPT ![h] =
                          Step([rec EXCEPT !.context_ids = ids],
                               "context_ids", "save_outbound")]
        /\ UNCHANGED <<apiVars, probe, bots, knowledge_base, chat_history, now, next_uuid,
                       received, outbox, answered>>

SaveOutbound(h) ==
    LET rec == handler[h]
    IN  /\ rec.pc = "save_outbound"
        /\ chat_history' = SaveMessage(chat_history, rec, "assistant", rec.response,
                                       rec.context_ids)
        /\ handler' = [handler EXCEPT ![h] = Step(rec, "save_outbound", "stats")]
        /\ UNCHANGED <<apiVars, probe, bots, knowledge_base, now, next_uuid, received, outbox,
                       answered>>

\* A bump that reads the stored row again before it adds one.
UpdateBotStats_Atomic(h) ==
    LET rec == handler[h]
        total == bots[rec.bot_id].total_messages + 1
    IN  /\ rec.pc = "stats"
        /\ bots' = [bots EXCEPT ![rec.bot_id].total_messages = total,
                                ![rec.bot_id].last_message_at = now]
        /\ handler' = [handler EXCEPT ![h] =
                          Step([rec EXCEPT !.bot_total = total], "stats", "send")]
        /\ UNCHANGED <<apiVars, probe, knowledge_base, chat_history, now, next_uuid, received,
                       outbox, answered>>

\* ChatService._update_bot_stats: the handler's own copy of the bot, read when
\* the bot was looked up, plus one, written back.
UpdateBotStats(h) ==
    LET rec == handler[h]
        total == rec.bot_total + 1
    IN  /\ rec.pc = "stats"
        /\ bots' = [bots EXCEPT ![rec.bot_id].total_messages = total,
                                ![rec.bot_id].last_message_at = now]
        /\ handler' = [handler EXCEPT ![h] =
                          Step([rec EXCEPT !.bot_total = total], "stats", "send")]
        /\ UNCHANGED <<apiVars, probe, knowledge_base, chat_history, now, next_uuid, received,
                       outbox, answered>>

\* ---------------------------------------------------------------- TelegramBot

\* A send_message that lets the failure of sendMessage out: the request ends
\* with a 500.
SendMessage_Raises(h, ok) ==
    LET rec == handler[h]
    IN  /\ rec.pc = "send"
        /\ outbox' = Append(outbox, [method |-> "sendMessage", req |-> rec.req,
                                     token |-> bots[rec.bot_id].token,
                                     chat_id |-> rec.chat_id, text |-> rec.response])
        /\ handler' = [handler EXCEPT ![h] =
                          Step([rec EXCEPT !.sent = IF ok THEN "True" ELSE @,
                                           !.status = IF ok THEN 200 ELSE 500],
                               "deliver", "respond")]
        /\ UNCHANGED <<apiVars, probe, bots, knowledge_base, chat_history, now, next_uuid,
                       received, answered>>

\* TelegramBot.send_message for a response that holds a text only: one
\* sendMessage call; a failure of it is caught and False is returned.
SendMessage(h, ok) ==
    LET rec == handler[h]
    IN  /\ rec.pc = "send"
        /\ outbox' = Append(outbox, [method |-> "sendMessage", req |-> rec.req,
                                     token |-> bots[rec.bot_id].token,
                                     chat_id |-> rec.chat_id, text |-> rec.response])
        /\ handler' = [handler EXCEPT ![h] =
                          Step([rec EXCEPT !.sent = IF ok THEN "True" ELSE "False",
                                           !.status = 200],
                               "deliver", "respond")]
        /\ UNCHANGED <<apiVars, probe, bots, knowledge_base, chat_history, now, next_uuid,
                       received, answered>>

\* _process_telegram_callback: answerCallbackQuery through _make_request, whose
\* BotPlatformError nothing catches.
AnswerCallback(h, ok) ==
    LET rec == handler[h]
    IN  /\ rec.pc = "callback"
        /\ outbox' = Append(outbox, [method |-> "answerCallbackQuery", req |-> rec.req,
                                     token |-> bots[rec.bot_id].token,
                                     chat_id |-> "", text |-> EmptyText])
        /\ handler' = [handler EXCEPT ![h] =
                          Step([rec EXCEPT !.status = IF ok THEN 200 ELSE 500,
                                           !.failed = IF ok THEN @ ELSE @ \cup {"callback"}],
                               "callback", "respond")]
        /\ UNCHANGED <<apiVars, probe, bots, knowledge_base, chat_history, now, next_uuid,
                       received, answered>>

\* The HTTP response leaves; the task ends.
Respond(h) ==
    /\ handler[h].pc = "respond"
    /\ answered' = Append(answered, [req |-> handler[h].req,
                                     token |-> handler[h].token,
                                     body |-> handler[h].body,
                                     status |-> handler[h].status,
                                     rows_before |-> handler[h].rows_before,
                                     rows_after |-> Len(chat_history),
                                     total_before |-> handler[h].total_before,
                                     total_after |-> handler[h].bot_total])
    /\ handler' = [handler EXCEPT ![h] = IdleHandler]
    /\ UNCHANGED <<apiVars, probe, bots, knowledge_base, chat_history, now, next_uuid, received,
                   outbox>>

\* ---------------------------------------------------------------- specifications

NoneActive == \A h \in Handlers : handler[h].pc = "idle"

Pipeline(h) ==
    \/ ResolveSession(h)
    \/ SaveInbound(h)
    \/ FetchHistory(h)
    \/ \E ok \in BOOLEAN : SearchKnowledge(h, ok)
    \/ \E outcome \in {"text", "empty", "error"} : Generate(h, outcome)
    \/ ContextIds(h)
    \/ SaveOutbound(h)
    \/ UpdateBotStats(h)
    \/ \E ok \in BOOLEAN : SendMessage(h, ok)
    \/ \E ok \in BOOLEAN : AnswerCallback(h, ok)
    \/ Respond(h)

\* Sequential processing: a request arrives when no other is being handled.
Next ==
    \/ Tick
    \/ \E r \in Requests : NoneActive /\ Receive("h1", r.token, r.body)
    \/ Pipeline("h1")

Spec == Init /\ [][Next]_vars

\* ---------------------------------------------------------------- the store, called directly

\* The rows a direct caller appends and the limits it asks for.
StorePairs == {<<1, "u1">>, <<1, "u2">>, <<2, "u1">>}
StoreTurns == {<<"user", Hi>>, <<"assistant", Reply>>}
Limits == {1, 2, HistoryLimit}

\* append(bot, user, session, role, content): ChatService._save_message.
StoreAppend(pair, turn) ==
    /\ probe = NoProbe
    /\ Len(chat_history) < MaxRows
    /\ chat_history' = SaveMessage(chat_history,
                                   [bot_id |-> pair[1], chat_id |-> pair[2],
                                    session_id |-> 1],
                                   turn[1], turn[2], << >>)
    /\ UNCHANGED <<apiVars, probe, bots, knowledge_base, now, next_uuid, received,
                   handler, outbox, answered>>

StoreTick ==
    /\ probe = NoProbe
    /\ now + TickMinutes <= MaxTime
    /\ now' = now + TickMinutes
    /\ UNCHANGED <<apiVars, probe, bots, knowledge_base, chat_history, next_uuid,
                   received, handler, outbox, answered>>

\* recent_history(bot, user, limit): ChatService._get_chat_history.
RecentHistory(pair, limit) ==
    /\ probe = NoProbe
    /\ probe' = [op |-> "recent_history", bot_id |-> pair[1], chat_id |-> pair[2],
                 limit |-> limit,
                 result |-> GetChatHistory(chat_history, pair[1], pair[2], limit)]
    /\ UNCHANGED <<apiVars, bots, knowledge_base, chat_history, now, next_uuid, received,
                   handler, outbox, answered>>

\* The caller has its result.
StoreReturn ==
    /\ probe # NoProbe
    /\ probe' = NoProbe
    /\ UNCHANGED <<apiVars, bots, knowledge_base, chat_history, now, next_uuid, received,
                   handler, outbox, answered>>

NextStore ==
    \/ \E pair \in StorePairs, turn \in StoreTurns : StoreAppend(pair, turn)
    \/ StoreTick
    \/ \E pair \in StorePairs, limit \in Limits : RecentHistory(pair, limit)
    \/ StoreReturn

SpecStore == Init /\ [][NextStore]_vars

\* ---------------------------------------------------------------- payment providers, values

\* A value of a webhook payload: an int, a text, or None (what dict.get gives
\* for a missing key). Form fields arrive as texts, JSON numbers as ints.
IntValue(n) == [int |-> n]
TextValue(t) == [str |-> t]
NoneValue == [none |-> TRUE]

\* payload.get(k)
Get(payload, k) == IF Has(payload, k) THEN payload[k] ELSE NoneValue

Digits == <<"0", "1", "2", "3", "4", "5", "6", "7", "8", "9">>

\* str(n) of a non-negative int.
RECURSIVE IntToText(_)
IntToText(n) ==
    IF n < 10 THEN <<Digits[n + 1]>>
    ELSE IntToText(n \div 10) \o <<Digits[(n % 10) + 1]>>

\* str(v)
Str(v) ==
    CASE Has(v, "int") -> IntToText(v.int)
      [] Has(v, "str") -> v.str
      [] OTHER -> <<"N", "o", "n", "e">>

\* str(payload.get(k, ""))
StrField(payload, k) == IF Has(payload, k) THEN Str(payload[k]) ELSE EmptyText

\* hashlib.md5(text.encode()).hexdigest(). The digest is taken as free of
\* collisions: it is written as a marker followed by the text it was computed
\* from, so two digests are equal exactly when their texts are.
Md5HexDigest(text) == <<"md5:">> \o text

\* settings.CLICK_SECRET_KEY and settings.PAYME_SECRET_KEY as deployed.
ClickSecretKey == <<"s">>
PaymeSecretKey == <<"k">>

\* ---------------------------------------------------------------- ClickProvider

\* A reordering of the signature: the secret key moved to the end.
ClickVerifyWebhook_SecretLast(payload, signature) ==
    signature = Md5HexDigest(StrField(payload, "click_trans_id")
                             \o StrField(payload, "service_id")
                             \o StrField(payload, "merchant_trans_id")
                             \o StrField(payload, "amount")
                             \o StrField(payload, "action")
                             \o StrField(payload, "sign_time")
                             \o ClickSecretKey)

\* ClickProvider.verify_webhook(payload, signature)
ClickVerifyWebhook(payload, signature) ==
    LET click_trans_id == StrField(payload, "click_trans_id")
        service_id == StrField(payload, "service_id")
        merchant_trans_id == StrField(payload, "merchant_trans_id")
        amount == StrField(payload, "amount")
        action == StrField(payload, "action")
        sign_time == StrField(payload, "sign_time")
        sign_string == click_trans_id \o service_id \o ClickSecretKey
                       \o merchant_trans_id \o amount \o action \o sign_time
        expected_signature == Md5HexDigest(sign_string)
    IN  signature = expected_signature

\* ClickProvider._prepare_transaction(payload)
ClickPrepareTransaction(payload) ==
    [click_trans_id |-> Get(payload, "click_trans_id"),
     merchant_trans_id |-> Get(payload, "merchant_trans_id"),
     merchant_prepare_id |-> Get(payload, "merchant_trans_id"),
     error |-> 0, error_note |-> "Success"]

\* ClickProvider._complete_transaction(payload)
ClickCompleteTransaction(payload) ==
    [click_trans_id |-> Get(payload, "click_trans_id"),
     merchant_trans_id |-> Get(payload, "merchant_trans_id"),
     merchant_confirm_id |-> Get(payload, "merchant_trans_id"),
     error |-> 0, error_note |-> "Success"]

\* No exception: the message of an exception that was not raised.
NoFault == ""

\* The except clause swallowed: a failing handler lets its exception through.
ClickHandleWebhook_Propagates(payload, fault) ==
    LET action == Get(payload, "action")
    IN  CASE action = IntValue(0) /\ fault # NoFault -> [raised |-> fault]
          [] action = IntValue(1) /\ fault # NoFault -> [raised |-> fault]
          [] action = IntValue(0) -> ClickPrepareTransaction(payload)
          [] action = IntValue(1) -> ClickCompleteTransaction(payload)
          [] OTHER -> [error |-> -3, error_note |-> "Invalid action"]

\* ClickProvider.handle_webhook(payload). fault is the message of the exception
\* the dispatched handler raises, NoFault when it returns.
ClickHandleWebhook(payload, fault) ==
    LET action == Get(payload, "action")
    IN  IF action = IntValue(0)
        THEN IF fault = NoFault THEN ClickPrepareTransaction(payload)
             ELSE [error |-> -9, error_note |-> fault]
        ELSE IF action = IntValue(1)
        THEN IF fault = NoFault THEN ClickCompleteTransaction(payload)
             ELSE [error |-> -9, error_note |-> fault]
        ELSE [error |-> -3, error_note |-> "Invalid action"]

\* ---------------------------------------------------------------- PayMeProvider, authorization

\* The base64 alphabet, in the order of its 6-bit values 0..63.
Base64Alphabet ==
    <<"A", "B", "C", "D", "E", "F", "G", "H", "I", "J", "K", "L", "M", "N",
      "O", "P", "Q", "R", "S", "T", "U", "V", "W", "X", "Y", "Z", "a", "b",
      "c", "d", "e", "f", "g", "h", "i", "j", "k", "l", "m", "n", "o", "p",
      "q", "r", "s", "t", "u", "v", "w", "x", "y", "z", "0", "1", "2", "3",
      "4", "5", "6", "7", "8", "9", "+", "/">>

\* The printable ASCII characters, in the order of their codes 32..126 (the
\* double quote, the backslash and the backtick are written by name).
PrintableAscii ==
    <<" ", "!", "dquote", "#", "$", "%", "&", "'", "(", ")", "*", "+", ",",
      "-", ".", "/", "0", "1", "2", "3", "4", "5", "6", "7", "8", "9", ":",
      ";", "<", "=", ">", "?", "@", "A", "B", "C", "D", "E", "F", "G", "H",
      "I", "J", "K", "L", "M", "N", "O", "P", "Q", "R", "S", "T", "U", "V",
      "W", "X", "Y", "Z", "[", "backslash", "]", "^", "_", "backtick", "a", "b", "c",
      "d", "e", "f", "g", "h", "i", "j", "k", "l", "m", "n", "o", "p", "q",
      "r", "s", "t", "u", "v", "w", "x", "y", "z", "{", "|", "}", "~">>

\* The 6-bit value of each alphabet character, and the ASCII characters.
Base64Values ==
    [c \in SeqToSet(Base64Alphabet) |->
        (CHOOSE i \in 1..64 : Base64Alphabet[i] = c) - 1]
AsciiChars == SeqToSet(PrintableAscii)
IsBase64Char(c) == c \in DOMAIN Base64Values
Base64Value(c) == Base64Values[c]
IsAscii(c) == c \in AsciiChars

\* bytes.decode() of one byte below 128 (the control characters are not used).
Chr(byte) == IF byte >= 32 /\ byte <= 126 THEN PrintableAscii[byte - 31] ELSE "?"

\* binascii.a2b_base64(data) without strict mode, as base64.b64decode calls
\* it: characters outside the alphabet are skipped, a padding that completes
\* a quad ends the input, a quad left open at the end is an error.
RECURSIVE A2bBase64(_, _, _, _, _, _)
A2bBase64(data, i, quad_pos, leftchar, pads, out) ==
    IF i > Len(data)
    THEN IF quad_pos # 0 THEN [ok |-> FALSE, bytes |-> << >>]
         ELSE [ok |-> TRUE, bytes |-> out]
    ELSE IF data[i] = "="
    THEN IF quad_pos >= 2 /\ quad_pos + pads + 1 >= 4
         THEN [ok |-> TRUE, bytes |-> out]
         ELSE A2bBase64(data, i + 1, quad_pos, leftchar,
                        IF quad_pos >= 2 THEN pads + 1 ELSE pads, out)
    ELSE IF ~IsBase64Char(data[i])
    THEN A2bBase64(data, i + 1, quad_pos, leftchar, pads, out)
    ELSE LET this_ch == Base64Value(data[i])
         IN  CASE quad_pos = 0 ->
                    A2bBase64(data, i + 1, 1, this_ch, 0, out)
               [] quad_pos = 1 ->
                    A2bBase64(data, i + 1, 2, this_ch % 16, 0,
                              Append(out, leftchar * 4 + this_ch \div 16))
               [] quad_pos = 2 ->
                    A2bBase64(data, i + 1, 3, this_ch % 4, 0,
                              Append(out, leftchar * 16 + this_ch \div 4))
               [] OTHER ->
                    A2bBase64(data, i + 1, 0, 0, 0,
                              Append(out, leftchar * 64 + this_ch))

\* base64.b64decode(encoded): a text with a non-ASCII character is a ValueError.
B64Decode(encoded) ==
    IF \E i \in 1..Len(encoded) : ~IsAscii(encoded[i])
    THEN [ok |-> FALSE, bytes |-> << >>]
    ELSE A2bBase64(encoded, 1, 0, 0, 0, << >>)

\* s.startswith(prefix) and s[n:]
StartsWith(s, prefix) ==
    Len(s) >= Len(prefix) /\ SubSeq(s, 1, Len(prefix)) = prefix
Drop(s, n) == SubSeq(s, n + 1, Len(s))

BasicPrefix == <<"B", "a", "s", "i", "c", " ">>
PaycomColon == <<"P", "a", "y", "c", "o", "m", ":">>

\* The scheme test dropped: whatever follows the first six characters is decoded.
PaymeVerifyWebhook_AnyScheme(signature) ==
    LET decoded == B64Decode(Drop(signature, Len(BasicPrefix)))
    IN  /\ decoded.ok
        /\ \A i \in 1..Len(decoded.bytes) : decoded.bytes[i] < 128
        /\ [i \in 1..Len(decoded.bytes) |-> Chr(decoded.bytes[i])]
               = PaycomColon \o PaymeSecretKey

\* PayMeProvider.verify_webhook(payload, signature); the payload is not read.
\* A byte of 128 or more either fails to decode as UTF-8 or decodes to a
\* character the ASCII secret does not hold: the answer is False both ways.
PaymeVerifyWebhook(signature) ==
    IF ~StartsWith(signature, BasicPrefix) THEN FALSE
    ELSE LET encoded == Drop(signature, Len(BasicPrefix))
             decoded == B64Decode(encoded)
             expected == PaycomColon \o PaymeSecretKey
         IN  /\ decoded.ok
             /\ \A i \in 1..Len(decoded.bytes) : decoded.bytes[i] < 128
             /\ [i \in 1..Len(decoded.bytes) |-> Chr(decoded.bytes[i])] = expected

\* Authorization headers: the merchant's own, the same with a character
\* outside the alphabet, with a doubled padding, with trailing text, with the
\* padding cut off, with another secret, with another identity, with bytes that
\* are not UTF-8, with a non-ASCII character, under other schemes, and none.
GoodCredentials == <<"U", "G", "F", "5", "Y", "2", "9", "t", "O", "m", "s", "=">>
WrongSecretCredentials == <<"U", "G", "F", "5", "Y", "2", "9", "t", "O", "m", "o", "=">>
WrongIdentityCredentials == <<"U", "G", "F", "5", "b", "W", "U", "6", "a", "w", "=", "=">>
AuthorizationHeaders ==
    { BasicPrefix \o GoodCredentials,
      BasicPrefix \o SubSeq(GoodCredentials, 1, 4) \o <<"!">>
          \o Drop(GoodCredentials, 4),
      BasicPrefix \o GoodCredentials \o <<"=">>,
      BasicPrefix \o GoodCredentials \o <<"A">>,
      BasicPrefix \o SubSeq(GoodCredentials, 1, Len(GoodCredentials) - 1),
      BasicPrefix \o WrongSecretCredentials,
      BasicPrefix \o WrongIdentityCredentials,
      BasicPrefix \o <<"/", "w", "=", "=">>,
      BasicPrefix \o <<"e-acute">>,
      BasicPrefix,
      <<"b", "a", "s", "i", "c", " ">> \o GoodCredentials,
      <<"B", "e", "a", "r", "e", "r", " ">> \o GoodCredentials,
      GoodCredentials,
      EmptyText }

\* ---------------------------------------------------------------- PayMeProvider, JSON-RPC

\* JSON values beside ints, texts and null: an object and an array. A method
\* name is a text that is only ever compared, so it is kept whole.
DictValue(d) == [dict |-> d]
ListValue == [list |-> << >>]
IsDict(v) == Has(v, "dict")

\* str(e) of the AttributeError that v.get raises when v is no dict.
NoGetAttribute(v) ==
    CASE Has(v, "none") -> "'NoneType' object has no attribute 'get'"
      [] Has(v, "list") -> "'list' object has no attribute 'get'"
      [] Has(v, "int") -> "'int' object has no attribute 'get'"
      [] OTHER -> "'str' object has no attribute 'get'"

\* d.get(k, {}) of a dict value d.
GetOrEmptyDict(d, k) == IF Has(d.dict, k) THEN d.dict[k] ELSE DictValue(EmptyDict)

\* int(datetime.utcnow().timestamp() * 1000) with the clock in minutes.
TimestampMs(clock) == clock * 60000

\* PayMeProvider._error_response(code, message, request_id)
PaymeErrorResponse(code, message, request_id) ==
    [jsonrpc |-> "2.0", id |-> request_id,
     error |-> [code |-> code,
                message |-> [uz |-> message, ru |-> message, en |-> message]]]

PaymeResult(request_id, result) ==
    [jsonrpc |-> "2.0", id |-> request_id, result |-> result]

\* PayMeProvider._check_perform_transaction(params, request_id): the order and
\* the amount are read and not looked up.
PaymeCheckPerformTransaction(params, request_id) ==
    PaymeResult(request_id, [allow |-> TRUE])

\* PayMeProvider._create_transaction(params, request_id)
PaymeCreateTransaction(params, request_id) ==
    PaymeResult(request_id, [create_time |-> Get(params.dict, "time"),
                             transaction |-> Get(params.dict, "id"),
                             state |-> 1])

\* PayMeProvider._perform_transaction(params, request_id)
PaymePerformTransaction(params, request_id, clock) ==
    PaymeResult(request_id, [transaction |-> Get(params.dict, "id"),
                             perform_time |-> TimestampMs(clock),
                             state |-> 2])

\* PayMeProvider._cancel_transaction(params, request_id)
PaymeCancelTransaction(params, request_id, clock) ==
    PaymeResult(request_id, [transaction |-> Get(params.dict, "id"),
                             cancel_time |-> TimestampMs(clock),
                             state |-> -1])

\* PayMeProvider._check_transaction(params, request_id)
PaymeCheckTransaction(params, request_id) ==
    PaymeResult(request_id, [create_time |-> 0, perform_time |-> 0,
                             cancel_time |-> 0,
                             transaction |-> Get(params.dict, "id"),
                             state |-> 1, reason |-> NoneValue])

PaymeMethods == {"CheckPerformTransaction", "CreateTransaction",
                 "PerformTransaction", "CancelTransaction", "CheckTransaction"}

\* The exception a method handler raises on these params, NoFault when it
\* returns: params.get on params that are no dict, and account.get on an
\* account that is no dict in the two handlers that read the order id.
PaymeHandlerFault(method, params) ==
    IF ~IsDict(params) THEN NoGetAttribute(params)
    ELSE IF method \in {"CheckPerformTransaction", "CreateTransaction"}
            /\ ~IsDict(GetOrEmptyDict(params, "account"))
    THEN NoGetAttribute(GetOrEmptyDict(params, "account"))
    ELSE NoFault

\* A dispatcher that answers an unknown method like CheckTransaction.
PaymeHandleWebhook_NoMethodCheck(payload, clock) ==
    LET params == IF Has(payload, "params") THEN payload.params
                  ELSE DictValue(EmptyDict)
        request_id == Get(payload, "id")
    IN  IF ~IsDict(params)
        THEN PaymeErrorResponse(-31001, NoGetAttribute(params), request_id)
        ELSE PaymeCheckTransaction(params, request_id)

\* PayMeProvider.handle_webhook(payload)
PaymeHandleWebhook(payload, clock) ==
    LET method == Get(payload, "method")
        params == IF Has(payload, "params") THEN payload.params
                  ELSE DictValue(EmptyDict)
        request_id == Get(payload, "id")
        known == Has(method, "str") /\ method.str \in PaymeMethods
    IN  IF ~known
        THEN PaymeErrorResponse(-32601, "Method not found", request_id)
        ELSE IF PaymeHandlerFault(method.str, params) # NoFault
        THEN PaymeErrorResponse(-31001, PaymeHandlerFault(method.str, params),
                                request_id)
        ELSE CASE method.str = "CheckPerformTransaction" ->
                    PaymeCheckPerformTransaction(params, request_id)
               [] method.str = "CreateTransaction" ->
                    PaymeCreateTransaction(params, request_id)
               [] method.str = "PerformTransaction" ->
                    PaymePerformTransaction(params, request_id, clock)
               [] method.str = "CancelTransaction" ->
                    PaymeCancelTransaction(params, request_id, clock)
               [] OTHER ->
                    PaymeCheckTransaction(params, request_id)

\* ---------------------------------------------------------------- the payment providers, called directly

\* Every dict whose keys are some of the keys of choices and whose value at a
\* key is one of choices[key].
Dicts(choices) ==
    UNION { { d \in [keys -> UNION { choices[k] : k \in keys }] :
                \A k \in keys : d[k] \in choices[k] } :
            keys \in SUBSET DOMAIN choices }

\* Click payloads for verification: each signed field missing, a form text or
\* an int.
ClickPayloads ==
    Dicts([k \in {"click_trans_id", "service_id", "merchant_trans_id",
                  "amount", "action", "sign_time"} |->
              {TextValue(<<"1">>), IntValue(2)}])

\* The parts of a signature put together in an order; "secret_key" is the
\* configured secret.
RECURSIVE ConcatInOrder(_, _, _)
ConcatInOrder(payload, secret_key, order) ==
    IF order = << >> THEN EmptyText
    ELSE (IF Head(order) = "secret_key" THEN secret_key
          ELSE StrField(payload, Head(order)))
         \o ConcatInOrder(payload, secret_key, Tail(order))

\* The documented order, and orders a careless signer could use instead.
DocumentedOrder == <<"click_trans_id", "service_id", "secret_key",
                     "merchant_trans_id", "amount", "action", "sign_time">>
SignOrders ==
    { DocumentedOrder,
      <<"click_trans_id", "service_id", "merchant_trans_id", "amount",
        "action", "sign_time", "secret_key">>,
      <<"secret_key", "click_trans_id", "service_id", "merchant_trans_id",
        "amount", "action", "sign_time">>,
      <<"service_id", "click_trans_id", "secret_key", "merchant_trans_id",
        "amount", "action", "sign_time">>,
      <<"click_trans_id", "service_id", "secret_key", "merchant_trans_id",
        "action", "amount", "sign_time">>,
      Reversed(DocumentedOrder) }

\* What a caller may send as sign_string with a payload: a digest over one of
\* the orders, a digest under another secret, the undigested text, nothing.
ClickSignatures(payload) ==
    { Md5HexDigest(ConcatInOrder(payload, ClickSecretKey, order)) :
        order \in SignOrders }
    \cup { Md5HexDigest(ConcatInOrder(payload, <<"z">>, DocumentedOrder)),
           ConcatInOrder(payload, ClickSecretKey, DocumentedOrder),
           EmptyText }

\* Click payloads for the dispatcher: the action missing, an int, or a form
\* text, with and without the ids that are echoed.
ClickActionPayloads ==
    Dicts([action |-> {IntValue(0), IntValue(1), IntValue(2),
                       TextValue(<<"0">>), TextValue(<<"1">>)},
           click_trans_id |-> {IntValue(7)},
           merchant_trans_id |-> {TextValue(<<"1">>)}])

\* PayMe request bodies: the method missing, known, unknown or no text; the
\* params missing, null, an array, or an object whose account is an object,
\* null or missing; the id missing or an int.
PaymePayloads ==
    Dicts([method |-> { TextValue(m) : m \in PaymeMethods }
                      \cup {TextValue("GetStatement"), IntValue(1)},
           params |-> { NoneValue, ListValue, DictValue(EmptyDict),
                        DictValue([id |-> TextValue("t1"), time |-> IntValue(5),
                                   amount |-> IntValue(100),
                                   account |->
                                       DictValue([order_id |-> IntValue(1)])]),
                        DictValue([id |-> TextValue("t1"),
                                   account |-> NoneValue]) },
           id |-> {IntValue(1), IntValue(2)}])

\* ClickProvider.verify_webhook called with a payload and a signature.
ClickVerify(payload, signature) ==
    /\ probe = NoProbe
    /\ probe' = [op |-> "click_verify", payload |-> payload,
                 signature |-> signature,
                 result |-> ClickVerifyWebhook(payload, signature)]
    /\ UNCHANGED <<apiVars, bots, knowledge_base, chat_history, now, next_uuid,
                   received, handler, outbox, answered>>

\* ClickProvider.handle_webhook called with a payload.
ClickHandle(payload, fault) ==
    /\ probe = NoProbe
    /\ probe' = [op |-> "click_handle", payload |-> payload, fault |-> fault,
                 result |-> ClickHandleWebhook(payload, fault)]
    /\ UNCHANGED <<apiVars, bots, knowledge_base, chat_history, now, next_uuid,
                   received, handler, outbox, answered>>

\* PayMeProvider.handle_webhook called with a request body.
PaymeHandle(payload) ==
    /\ probe = NoProbe
    /\ probe' = [op |-> "payme_handle", payload |-> payload, clock |-> now,
                 result |-> PaymeHandleWebhook(payload, now)]
    /\ UNCHANGED <<apiVars, bots, knowledge_base, chat_history, now, next_uuid,
                   received, handler, outbox, answered>>

NextProviders ==
    \/ \E payload \in ClickPayloads :
         \E signature \in ClickSignatures(payload) : ClickVerify(payload, signature)
    \/ \E payload \in ClickActionPayloads,
            fault \in {NoFault, "connection refused"} :
         ClickHandle(payload, fault)
    \/ \E payload \in PaymePayloads : PaymeHandle(payload)
    \/ StoreTick
    \/ StoreReturn

SpecProviders == Init /\ [][NextProviders]_vars

\* ---------------------------------------------------------------- the payment webhooks

\* settings.PRICE_STARTER, in tiyin.
PriceStarter == 16500000

\* POST /payments/create by a signed-in user for the starter plan: a pending
\* Payment row under a fresh transaction id. (A request for the free plan is
\* refused with 400 and writes nothing.)
CreatePayment(user_id, provider) ==
    /\ Len(payments) < MaxPayments
    /\ payments' = Append(payments,
                          [id |-> Len(payments) + 1, user_id |-> user_id,
                           provider |-> provider, amount |-> PriceStarter * 1,
                           status |-> "pending", transaction_id |-> next_uuid,
                           subscription_type |-> "starter",
                           subscription_months |-> 1])
    /\ next_uuid' = next_uuid + 1
    /\ UNCHANGED <<users, pay_answered, clients, api_answered, probe, bots,
                   knowledge_base, chat_history, now, received, handler, outbox,
                   answered>>

\* The log of answered payment calls keeps the latest call in full (detail)
\* and of the earlier ones what was asked and which transaction state was
\* reported.
Answered(log, endpoint, method, transaction, state, detail) ==
    Append([i \in 1..Len(log) |-> [log[i] EXCEPT !.detail = EmptyDict]],
           [endpoint |-> endpoint, method |-> method,
            transaction |-> transaction, state |-> state, detail |-> detail])

\* The form of a Click request about order 1, signed over its own fields;
\* signed says how: "good", "reordered", "other secret", "empty", "missing".
ClickForm(action, signed) ==
    LET fields == [click_trans_id |-> TextValue(<<"7">>),
                   service_id |-> TextValue(<<"5">>),
                   merchant_trans_id |-> TextValue(<<"1">>),
                   amount |-> TextValue(<<"2">>),
                   action |-> TextValue(action),
                   sign_time |-> TextValue(<<"3">>)]
        sign_string ==
            CASE signed = "good" ->
                   Md5HexDigest(ConcatInOrder(fields, ClickSecretKey,
                                              DocumentedOrder))
              [] signed = "reordered" ->
                   Md5HexDigest(ConcatInOrder(fields, ClickSecretKey,
                                              Reversed(DocumentedOrder)))
              [] signed = "other secret" ->
                   Md5HexDigest(ConcatInOrder(fields, <<"z">>, DocumentedOrder))
              [] OTHER -> EmptyText
    IN  IF signed = "missing" THEN fields
        ELSE [k \in DOMAIN fields \cup {"sign_string"} |->
                 IF k = "sign_string" THEN sign_string ELSE fields[k]]

\* The bodies the Click endpoints receive: a form, or one that cannot be read.
ClickBodies ==
    { [kind |-> "form", fields |-> ClickForm(action, signed)] :
        action \in {<<"0">>, <<"1">>},
        signed \in {"good", "reordered", "other secret", "empty", "missing"} }
    \cup {[kind |-> "unreadable"]}

\* An endpoint that hands every readable form to the provider.
ClickWebhook_NoSignCheck(endpoint, body) ==
    /\ Len(pay_answered) < MaxPayCalls
    /\ pay_answered' =
           Answered(pay_answered, endpoint, "", "", 0,
                  [body |-> body,
                   handled |-> body.kind = "form", status |-> 200,
                   response |->
                       IF body.kind # "form"
                       THEN [error |-> -8, error_note |-> "Invalid request"]
                       ELSE ClickHandleWebhook(
                                [k \in DOMAIN body.fields \cup {"action"} |->
                                    IF k = "action"
                                    THEN IntValue(IF endpoint = "click/prepare"
                                                  THEN 0 ELSE 1)
                                    ELSE body.fields[k]], NoFault),
                   payments_before |-> payments, payments_after |-> payments])
    /\ UNCHANGED <<users, payments, clients, api_answered, probe, bots,
                   knowledge_base, chat_history, now, next_uuid, received,
                   handler, outbox, answered>>

\* click_prepare_webhook and click_complete_webhook: POST /webhooks/click/prepare
\* and /webhooks/click/complete.
ClickWebhook(endpoint, body) ==
    /\ Len(pay_answered) < MaxPayCalls
    /\ LET payload_dict == body.fields
           sign_string == IF Has(payload_dict, "sign_string")
                          THEN payload_dict["sign_string"] ELSE EmptyText
           verified == ClickVerifyWebhook(payload_dict, sign_string)
           forced == [k \in DOMAIN payload_dict \cup {"action"} |->
                         IF k = "action"
                         THEN IntValue(IF endpoint = "click/prepare" THEN 0 ELSE 1)
                         ELSE payload_dict[k]]
           response ==
               IF body.kind # "form"
               THEN [error |-> -8, error_note |-> "Invalid request"]
               ELSE IF ~verified
               THEN [error |-> -1, error_note |-> "Sign check failed"]
               ELSE ClickHandleWebhook(forced, NoFault)
       IN  pay_answered' =
               Answered(pay_answered, endpoint, "", "", 0,
                        [body |-> body,
                         handled |-> body.kind = "form" /\ verified,
                         status |-> 200, response |-> response,
                         payments_before |-> payments,
                         payments_after |-> payments])
    /\ UNCHANGED <<users, payments, clients, api_answered, probe, bots,
                   knowledge_base, chat_history, now, next_uuid, received,
                   handler, outbox, answered>>

\* PayMe request bodies: JSON that does not parse, a JSON array, and JSON-RPC
\* requests about transaction t1 of order 1 at the plan's price, about the
\* never created t2, and CheckPerformTransaction for an order nobody placed
\* and for a wrong amount.
PaymeRequest(method, transaction, order_id, amount) ==
    [kind |-> "object",
     payload |-> [method |-> TextValue(method), id |-> IntValue(1),
                  params |-> DictValue([id |-> TextValue(transaction),
                                        time |-> IntValue(5),
                                        amount |-> IntValue(amount),
                                        account |-> DictValue(
                                            [order_id |-> IntValue(order_id)])])]]
PaymeBodies ==
    { PaymeRequest(method, "t1", 1, PriceStarter) : method \in PaymeMethods }
    \cup { PaymeRequest("PerformTransaction", "t2", 1, PriceStarter),
           PaymeRequest("CheckPerformTransaction", "t1", 9, PriceStarter),
           PaymeRequest("CheckPerformTransaction", "t1", 1, 100),
           [kind |-> "malformed"], [kind |-> "array"] }

\* What PayMe requests arrive: every body under the merchant's header,
\* PerformTransaction for t1 under every header, an array without a header.
PaymeCalls ==
    { [authorization |-> BasicPrefix \o GoodCredentials, body |-> body] :
        body \in PaymeBodies }
    \cup { [authorization |-> authorization,
            body |-> PaymeRequest("PerformTransaction", "t1", 1, PriceStarter)] :
             authorization \in AuthorizationHeaders }
    \cup { [authorization |-> EmptyText, body |-> [kind |-> "array"]] }

\* payme_webhook: POST /webhooks/payme. A request without an Authorization
\* header is verified against the empty text.
PaymeWebhook(authorization, body) ==
    /\ Len(pay_answered) < MaxPayCalls
    /\ LET verified == PaymeVerifyWebhook(authorization)
           outcome ==
               IF body.kind = "malformed"
               THEN [handled |-> FALSE, status |-> 400,
                     response |-> [detail |-> "Invalid JSON payload"]]
               ELSE IF body.kind # "object"
               THEN [handled |-> verified, status |-> 500,
                     response |-> [code |-> "INTERNAL_ERROR"]]
               ELSE IF ~verified
               THEN [handled |-> FALSE, status |-> 200,
                     response |->
                         [jsonrpc |-> "2.0", id |-> Get(body.payload, "id"),
                          error |-> [code |-> -32504,
                                     message |-> [uz |-> "Avtorizatsiya xatosi"]]]]
               ELSE [handled |-> TRUE, status |-> 200,
                     response |-> PaymeHandleWebhook(body.payload, now)]
           executed == outcome.handled /\ outcome.status = 200
       IN  pay_answered' =
               Answered(pay_answered, "payme",
                        IF executed THEN body.payload.method.str ELSE "",
                        IF executed THEN body.payload.params.dict.id.str ELSE "",
                        IF executed /\ Has(outcome.response, "result")
                           /\ Has(outcome.response.result, "state")
                        THEN outcome.response.result.state ELSE 0,
                        [authorization |-> authorization,
                         body |-> body, verified |-> verified,
                         handled |-> outcome.handled, status |-> outcome.status,
                         response |-> outcome.response,
                         payments_before |-> payments,
                         payments_after |-> payments])
    /\ UNCHANGED <<users, payments, clients, api_answered, probe, bots,
                   knowledge_base, chat_history, now, next_uuid, received,
                   handler, outbox, answered>>

NextPay ==
    \/ \E provider \in {"payme", "click"} : CreatePayment(1, provider)
    \/ \E endpoint \in {"click/prepare", "click/complete"}, body \in ClickBodies :
         ClickWebhook(endpoint, body)
    \/ \E call \in PaymeCalls : PaymeWebhook(call.authorization, call.body)

SpecPay == Init /\ [][NextPay]_vars

\* ---------------------------------------------------------------- the REST API: payments

\* A cancel that skips the ownership filter of its select.
CancelPayment_AnyOwner(user_id, payment_id) ==
    LET found == { i \in 1..Len(payments) : payments[i].id = payment_id }
        i == CHOOSE x \in found : TRUE
        cancellable == found # {} /\ payments[i].status = "pending"
        after == IF cancellable
                 THEN [payments EXCEPT ![i].status = "cancelled"]
                 ELSE payments
    IN  /\ payments' = after
        /\ probe' = [op |-> "cancel_payment", user_id |-> user_id,
                     payment_id |-> payment_id,
                     status |-> IF found = {} THEN 404
                                ELSE IF ~cancellable THEN 400 ELSE 200,
                     before |-> payments, after |-> after]
        /\ UNCHANGED <<users, pay_answered, clients, api_answered, bots,
                       knowledge_base, chat_history, now, next_uuid, received,
                       handler, outbox, answered>>

\* cancel_payment, POST /payments/{payment_id}/cancel by a signed-in user:
\* select the payment with the id among the user's own (404), refuse one that
\* is not pending (400), else set it cancelled and commit.
CancelPayment(user_id, payment_id) ==
    LET found == { i \in 1..Len(payments) :
                     /\ payments[i].id = payment_id
                     /\ payments[i].user_id = user_id }
        i == CHOOSE x \in found : TRUE
        cancellable == found # {} /\ payments[i].status = "pending"
        after == IF cancellable
                 THEN [payments EXCEPT ![i].status = "cancelled"]
                 ELSE payments
    IN  /\ payments' = after
        /\ probe' = [op |-> "cancel_payment", user_id |-> user_id,
                     payment_id |-> payment_id,
                     status |-> IF found = {} THEN 404
                                ELSE IF ~cancellable THEN 400 ELSE 200,
                     before |-> payments, after |-> after]
        /\ UNCHANGED <<users, pay_answered, clients, api_answered, bots,
                       knowledge_base, chat_history, now, next_uuid, received,
                       handler, outbox, answered>>

\* Payments are created and cancelled by two users while the providers'
\* webhooks are called.
NextCancel ==
    \/ \E user_id \in {1, 2}, provider \in {"payme", "click"} :
         CreatePayment(user_id, provider)
    \/ \E user_id \in {1, 2}, payment_id \in 1..(MaxPayments + 1) :
         CancelPayment(user_id, payment_id)
    \/ \E endpoint \in {"click/prepare", "click/complete"} :
         ClickWebhook(endpoint, [kind |-> "form",
                                 fields |-> ClickForm(<<"1">>, "good")])
    \/ \E method \in {"PerformTransaction", "CancelTransaction"} :
         PaymeWebhook(BasicPrefix \o GoodCredentials,
                      PaymeRequest(method, "t1", 1, PriceStarter))

SpecCancel == Init /\ [][NextCancel]_vars

\* ---------------------------------------------------------------- the REST API: bots and registration

\* BOT_LIMITS.get(subscription_type, 1)
BotLimit(subscription_type) ==
    CASE subscription_type = "free" -> 1
      [] subscription_type = "starter" -> 3
      [] subscription_type = "basic" -> 10
      [] subscription_type = "premium" -> 50
      [] OTHER -> 1

\* POST /bots and PATCH /bots/{bot_id}/token by a signed-in user: with a token
\* of another bot, of the bot itself, and a new one; on an own bot and on
\* somebody else's.
BotRequests ==
    { [op |-> "create_bot", user_id |-> u, token |-> t] :
        u \in {1, 2}, t \in {"tok1", "tok8", "tok9"} }
    \cup { [op |-> "update_bot_token", user_id |-> 2, bot_id |-> b, token |-> t] :
             b \in {1, 2}, t \in {"tok1", "tok2", "tok9"} }

\* POST /auth/register: the email and the username of an existing user, of two
\* different users, and new ones; the username in any case.
RegisterRequests ==
    { [op |-> "register", email |-> e, username |-> n] :
        e \in {"a@x", "b@x", "c@x"}, n \in {<<"H", "i">>, Ok, <<"o", "h">>} }

\* The rows a select finds.
BotsWithToken(token, except_id) ==
    { b \in DOMAIN bots : bots[b].token = token /\ b # except_id }
UsersWith(email, username) ==
    { u \in 1..Len(users) :
        users[u].email = email \/ users[u].username = LowerText(username) }

\* A request arrives at a client's connection; clash tells whether the token,
\* the email or the username it brings is held by another row at that moment,
\* at_limit whether the user who asks for a bot owns as many as the plan allows.
ApiReceive(c, request) ==
    /\ clients[c].pc = "idle"
    /\ Len(api_answered) + Cardinality({ d \in Clients : clients[d].pc # "idle" })
           < MaxApiRequests
    /\ clients' =
           [clients EXCEPT ![c] =
               [pc |-> CASE request.op = "create_bot" -> "check_limit"
                         [] request.op = "update_bot_token" -> "load_bot"
                         [] OTHER -> "check_user",
                req |-> request,
                clash |->
                    CASE request.op = "create_bot" ->
                           BotsWithToken(request.token, 0) # {}
                      [] request.op = "update_bot_token" ->
                           BotsWithToken(request.token, request.bot_id) # {}
                      [] OTHER ->
                           UsersWith(request.email, request.username) # {},
                at_limit |->
                    /\ request.op = "create_bot"
                    /\ Cardinality({ b \in DOMAIN bots :
                                       bots[b].user_id = request.user_id })
                           >= BotLimit(users[request.user_id].subscription_type)]]
    /\ UNCHANGED <<users, payments, pay_answered, api_answered, probe, bots,
                   knowledge_base, chat_history, now, next_uuid, received,
                   handler, outbox, answered>>

\* The response leaves; the client's connection is free again.
Respond_(c, status) ==
    /\ api_answered' = Append(api_answered,
                              [req |-> clients[c].req, status |-> status,
                               clash |-> clients[c].clash,
                               at_limit |-> clients[c].at_limit])
    /\ clients' = [clients EXCEPT ![c] = IdleClient]

\* create_bot: the bot limit of the user's plan.
CheckBotLimit(c) ==
    /\ clients[c].pc = "check_limit"
    /\ LET user_id == clients[c].req.user_id
           current_user == users[CHOOSE u \in 1..Len(users) : users[u].id = user_id]
           current_bot_count ==
               Cardinality({ b \in DOMAIN bots : bots[b].user_id = user_id })
       IN  IF current_bot_count >= BotLimit(current_user.subscription_type)
           THEN Respond_(c, 402)
           ELSE /\ clients' = [clients EXCEPT ![c].pc = "check_token"]
                /\ UNCHANGED api_answered
    /\ UNCHANGED <<users, payments, pay_answered, probe, bots,
                   knowledge_base, chat_history, now, next_uuid, received,
                   handler, outbox, answered>>

\* update_bot_token: get_user_bot finds the bot among the user's own.
LoadBot(c) ==
    /\ clients[c].pc = "load_bot"
    /\ LET req == clients[c].req
       IN  IF req.bot_id \in DOMAIN bots /\ bots[req.bot_id].user_id = req.user_id
           THEN /\ clients' = [clients EXCEPT ![c].pc = "check_token"]
                /\ UNCHANGED api_answered
           ELSE Respond_(c, 404)
    /\ UNCHANGED <<users, payments, pay_answered, probe, bots,
                   knowledge_base, chat_history, now, next_uuid, received,
                   handler, outbox, answered>>

\* create_bot and update_bot_token: select the bots that hold the token (but
\* the bot being updated); scalar_one_or_none raises on two rows.
CheckToken(c) ==
    /\ clients[c].pc = "check_token"
    /\ LET req == clients[c].req
           found == BotsWithToken(req.token,
                                  IF req.op = "update_bot_token"
                                  THEN req.bot_id ELSE 0)
       IN  IF Cardinality(found) > 1 THEN Respond_(c, 500)
           ELSE IF found # {} THEN Respond_(c, 400)
           ELSE /\ clients' = [clients EXCEPT ![c].pc = "commit"]
                /\ UNCHANGED api_answered
    /\ UNCHANGED <<users, payments, pay_answered, probe, bots,
                   knowledge_base, chat_history, now, next_uuid, received,
                   handler, outbox, answered>>

\* create_bot: db.add(bot), commit; update_bot_token: bot.token = ..., commit.
\* The bots table has no unique constraint on token.
CommitBot(c) ==
    /\ clients[c].pc = "commit"
    /\ LET req == clients[c].req
           new_id == Cardinality(DOMAIN bots) + 1
       IN  IF req.op = "create_bot"
           THEN /\ bots' = [b \in DOMAIN bots \cup {new_id} |->
                               IF b \in DOMAIN bots THEN bots[b]
                               ELSE [id |-> new_id, user_id |-> req.user_id,
                                     token |-> req.token,
                                     platform |-> "telegram",
                                     is_active |-> TRUE, language |-> "uz",
                                     settings |-> EmptyDict,
                                     total_messages |-> 0,
                                     last_message_at |-> -1]]
                /\ Respond_(c, 201)
           ELSE /\ bots' = [bots EXCEPT ![req.bot_id].token = req.token]
                /\ Respond_(c, 200)
    /\ UNCHANGED <<users, payments, pay_answered, probe,
                   knowledge_base, chat_history, now, next_uuid, received,
                   handler, outbox, answered>>

\* register: select the users with the email or the lower-cased username;
\* scalar_one_or_none raises MultipleResultsFound on two rows, which the
\* application's handler for Exception answers with 500.
CheckUser(c) ==
    /\ clients[c].pc = "check_user"
    /\ LET existing == UsersWith(clients[c].req.email, clients[c].req.username)
       IN  IF Cardinality(existing) > 1 THEN Respond_(c, 500)
           ELSE IF existing # {} THEN Respond_(c, 400)
           ELSE /\ clients' = [clients EXCEPT ![c].pc = "commit_user"]
                /\ UNCHANGED api_answered
    /\ UNCHANGED <<users, payments, pay_answered, probe, bots,
                   knowledge_base, chat_history, now, next_uuid, received,
                   handler, outbox, answered>>

\* register: db.add(user), commit. The unique indexes on email and username
\* refuse a row that clashes with one committed meanwhile.
CommitUser(c) ==
    /\ clients[c].pc = "commit_user"
    /\ LET req == clients[c].req
       IN  IF UsersWith(req.email, req.username) # {}
           THEN /\ users' = users
                /\ Respond_(c, 500)
           ELSE /\ users' = Append(users,
                                   [id |-> Len(users) + 1, email |-> req.email,
                                    username |-> LowerText(req.username),
                                    is_active |-> TRUE,
                                    is_banned |-> FALSE, is_admin |-> FALSE,
                                    subscription_type |-> "free",
                                    subscription_expires_at |-> -1])
                /\ Respond_(c, 201)
    /\ UNCHANGED <<payments, pay_answered, probe, bots,
                   knowledge_base, chat_history, now, next_uuid, received,
                   handler, outbox, answered>>

NextApi ==
    \/ \E c \in Clients, request \in BotRequests : ApiReceive(c, request)
    \/ \E c \in Clients, request \in RegisterRequests : ApiReceive(c, request)
    \/ \E c \in Clients :
         \/ CheckBotLimit(c)
         \/ LoadBot(c)
         \/ CheckToken(c)
         \/ CommitBot(c)
         \/ CheckUser(c)
         \/ CommitUser(c)

SpecApi == Init /\ [][NextApi]_vars

\* ---------------------------------------------------------------- TelegramBot, called directly

\* The calls TelegramBot.send_message makes for a response, in order, when the
\* calls named in failing raise BotPlatformError: everything happens in one
\* try block, so the first failing call ends the method, which returns False.
\* An absent (None) or empty image_url or audio_url is skipped.
TelegramSendMessage(response, failing) ==
    LET wanted == <<"sendMessage">>
                  \o (IF Has(response, "image_url") /\ response.image_url # ""
                      THEN <<"sendPhoto">> ELSE << >>)
                  \o (IF Has(response, "audio_url") /\ response.audio_url # ""
                      THEN <<"sendVoice">> ELSE << >>)
        failed == { i \in 1..Len(wanted) : wanted[i] \in failing }
        last == IF failed = {} THEN Len(wanted)
                ELSE CHOOSE i \in failed : \A j \in failed : i <= j
    IN  [calls |-> SubSeq(wanted, 1, last), returned |-> failed = {},
         raised |-> FALSE]

\* lambda x: x.get("file_size", 0)
FileSizeKey(x) == IF Has(x, "file_size") THEN x.file_size ELSE 0

\* max(photos, key=...): a scan that keeps the item it holds unless a later one
\* has a strictly larger key.
RECURSIVE MaxByKey(_, _, _)
MaxByKey(photos, i, best) ==
    IF i > Len(photos) THEN best
    ELSE MaxByKey(photos, i + 1,
                  IF FileSizeKey(photos[i]) > FileSizeKey(best)
                  THEN photos[i] ELSE best)

\* _handle_message, the photo part: message.image_url is "file:" and the
\* file_id of the chosen variant; no photo, no image_url.
DecodeImageUrl(message_data) ==
    LET photos == IF Has(message_data, "photo") THEN message_data.photo ELSE << >>
    IN  IF photos # << >>
        THEN [image_url |-> <<"file:", MaxByKey(photos, 2, photos[1]).file_id>>]
        ELSE EmptyDict

\* Responses with and without an image and a voice recording.
BotResponses ==
    { [text |-> "hi"] }
    \cup { [text |-> "hi", image_url |-> i] : i \in {"", "i.png"} }
    \cup { [text |-> "hi", audio_url |-> a] : a \in {"", "a.ogg"} }
    \cup { [text |-> "hi", image_url |-> i, audio_url |-> a] :
             i \in {"", "i.png"}, a \in {"", "a.ogg"} }

\* The photo variants of a message: the variant at position i has file_id
\* FileIds[i] and a file_size, or none.
FileIds == <<"f1", "f2", "f3", "f4">>
PhotoVariant(i, size) ==
    IF size < 0 THEN [file_id |-> FileIds[i]]
    ELSE [file_id |-> FileIds[i], file_size |-> size]
PhotoMessages ==
    { [chat |-> "u1"] }
    \cup UNION { { [chat |-> "u1",
                    photo |-> [i \in 1..n |-> PhotoVariant(i, sizes[i])]] :
                     sizes \in [1..n -> -1..2] } : n \in 0..MaxPhotos }

\* TelegramBot.send_message called with a response, the provider failing the
\* calls named.
AdapterSend(response, failing) ==
    /\ probe = NoProbe
    /\ probe' = [op |-> "send_message", response |-> response,
                 failing |-> failing,
                 result |-> TelegramSendMessage(response, failing)]
    /\ UNCHANGED <<apiVars, bots, knowledge_base, chat_history, now, next_uuid,
                   received, handler, outbox, answered>>

\* TelegramBot._handle_message decoding a message.
AdapterDecode(message_data) ==
    /\ probe = NoProbe
    /\ probe' = [op |-> "decode", message_data |-> message_data,
                 result |-> DecodeImageUrl(message_data)]
    /\ UNCHANGED <<apiVars, bots, knowledge_base, chat_history, now, next_uuid,
                   received, handler, outbox, answered>>

NextAdapter ==
    \/ \E response \in BotResponses,
            failing \in SUBSET {"sendMessage", "sendPhoto", "sendVoice"} :
         AdapterSend(response, failing)
    \/ \E message_data \in PhotoMessages : AdapterDecode(message_data)
    \/ StoreReturn

SpecAdapter == Init /\ [][NextAdapter]_vars

\* ---------------------------------------------------------------- two handlers at once

\* The knowledge item a create_knowledge request adds to bot 1: its content
\* holds "hi" too.
NewKnowledge ==
    [id |-> Len(InitialKnowledge) + 1, bot_id |-> 1, is_active |-> TRUE,
     source_type |-> "text", title |-> <<"n">>, content |-> <<"h", "i">>,
     question |-> <<>>, answer |-> <<>>, extra_data |-> EmptyDict]

\* A request of the bot's owner commits while a handler waits for the
\* generation backend.
Generating == \E h \in Handlers : handler[h].pc = "generate"

\* create_knowledge: db.add(knowledge), commit.
CreateKnowledge ==
    /\ Generating
    /\ Len(knowledge_base) = Len(InitialKnowledge)
    /\ \A i \in 1..Len(knowledge_base) : knowledge_base[i].id # NewKnowledge.id
    /\ knowledge_base' = Append(knowledge_base, NewKnowledge)
    /\ UNCHANGED <<apiVars, probe, bots, chat_history, now, next_uuid, received,
                   handler, outbox, answered>>

\* update_knowledge with is_active in the request: setattr, commit.
UpdateKnowledge(knowledge_id, is_active) ==
    /\ Generating
    /\ \E i \in 1..Len(knowledge_base) :
         /\ knowledge_base[i].id = knowledge_id
         /\ knowledge_base[i].bot_id = 1
         /\ knowledge_base[i].is_active # is_active
         /\ knowledge_base' = [knowledge_base EXCEPT ![i].is_active = is_active]
    /\ UNCHANGED <<apiVars, probe, bots, chat_history, now, next_uuid, received,
                   handler, outbox, answered>>

\* delete_knowledge: db.delete(knowledge), commit.
DeleteKnowledge(knowledge_id) ==
    /\ Generating
    /\ \E i \in 1..Len(knowledge_base) :
         /\ knowledge_base[i].id = knowledge_id
         /\ knowledge_base[i].bot_id = 1
    /\ knowledge_base' = SelectSeq(knowledge_base,
                                   LAMBDA item : item.id # knowledge_id)
    /\ UNCHANGED <<apiVars, probe, bots, chat_history, now, next_uuid, received,
                   handler, outbox, answered>>

\* Text messages of one chat to bot 1, each handled by a task of its own.
ConcurrentBody ==
    [kind |-> "object",
     payload |-> [update_id |-> 1,
                  message |-> [chat |-> [id |-> "u1"], text |-> Hi]]]

\* The task a request is handed to: the tasks take the requests in turn.
TaskOf(request_number) == IF request_number % 2 = 1 THEN "h1" ELSE "h2"

\* Every call out of the pipeline succeeds; what varies is the order of the
\* two tasks' steps and of the owner's requests.
NextConcurrent ==
    \/ Tick
    \/ Receive(TaskOf(received + 1), "tok1", ConcurrentBody)
    \/ \E h \in Handlers :
         \/ ResolveSession(h)
         \/ SaveInbound(h)
         \/ FetchHistory(h)
         \/ SearchKnowledge(h, TRUE)
         \/ Generate(h, "text")
         \/ ContextIds(h)
         \/ SaveOutbound(h)
         \/ UpdateBotStats(h)
         \/ SendMessage(h, TRUE)
         \/ Respond(h)

SpecConcurrent == Init /\ [][NextConcurrent]_vars

\* The two tasks, and the bot's owner changing the bot's knowledge meanwhile.
NextKnowledgeRace ==
    \/ NextConcurrent
    \/ CreateKnowledge
    \/ UpdateKnowledge(1, FALSE)
    \/ DeleteKnowledge(1)

SpecKnowledgeRace == Init /\ [][NextKnowledgeRace]_vars

\* ---------------------------------------------------------------- the REST API: a bot and its knowledge

\* A lookup by id alone.
GetUserBot_AnyUser(table, bot_id, user_id) ==
    { b \in DOMAIN table : table[b].id = bot_id }

\* get_user_bot: select(Bot).where(Bot.id == bot_id, Bot.user_id ==
\* current_user.id); no row, 404.
GetUserBot(table, bot_id, user_id) ==
    { b \in DOMAIN table : table[b].id = bot_id /\ table[b].user_id = user_id }

\* The endpoints under /bots/{bot_id}, each called by a signed-in user and run
\* to its end: get_user_bot first, then the endpoint's own work. update_bot
\* sets the language, update_knowledge deactivates the item; deleting a bot
\* deletes its knowledge items with it.
BotOperations ==
    {"get_bot", "update_bot", "delete_bot", "activate_bot", "deactivate_bot",
     "create_knowledge", "update_knowledge", "delete_knowledge"}

BotEndpoint(caller, op, bot_id, knowledge_id) ==
    LET found == GetUserBot(bots, bot_id, caller)
        item == { i \in 1..Len(knowledge_base) :
                    /\ knowledge_base[i].id = knowledge_id
                    /\ knowledge_base[i].bot_id = bot_id }
        on_item == op \in {"update_knowledge", "delete_knowledge"}
        status == IF found = {} \/ (on_item /\ item = {}) THEN 404
                  ELSE IF op = "create_knowledge" THEN 201 ELSE 200
        new_bots ==
            CASE status = 404 -> bots
              [] op = "update_bot" -> [bots EXCEPT ![bot_id].language = "uz"]
              [] op = "activate_bot" -> [bots EXCEPT ![bot_id].is_active = TRUE]
              [] op = "deactivate_bot" -> [bots EXCEPT ![bot_id].is_active = FALSE]
              [] op = "delete_bot" -> [b \in DOMAIN bots \ {bot_id} |-> bots[b]]
              [] OTHER -> bots
        new_knowledge ==
            CASE status = 404 -> knowledge_base
              [] op = "delete_bot" ->
                   SelectSeq(knowledge_base, LAMBDA k : k.bot_id # bot_id)
              [] op = "create_knowledge" ->
                   Append(knowledge_base, [NewKnowledge EXCEPT !.bot_id = bot_id])
              [] op = "update_knowledge" ->
                   [knowledge_base EXCEPT ![CHOOSE i \in item : TRUE].is_active = FALSE]
              [] op = "delete_knowledge" ->
                   SelectSeq(knowledge_base, LAMBDA k : k.id # knowledge_id)
              [] OTHER -> knowledge_base
    IN  /\ op = "create_knowledge" =>
             /\ \A i \in 1..Len(knowledge_base) :
                  knowledge_base[i].id < NewKnowledge.id
             /\ Len(knowledge_base) = Len(InitialKnowledge)
        /\ bots' = new_bots
        /\ knowledge_base' = new_knowledge
        /\ probe' = [op |-> op, caller |-> caller, bot_id |-> bot_id,
                     knowledge_id |-> knowledge_id, status |-> status,
                     read |-> IF status = 404 THEN {} ELSE {bot_id},
                     bots_before |-> bots, knowledge_before |-> knowledge_base]
        /\ UNCHANGED <<apiVars, chat_history, now, next_uuid, received, handler,
                       outbox, answered>>

\* Both users call every endpoint on bot 1 (of user 1) and bot 2 (of user 2),
\* the item endpoints with the item of bot 1 and with that of bot 2.
NextOwnership ==
    \/ \E caller \in {1, 2}, bot_id \in {1, 2},
          op \in BotOperations \ {"update_knowledge", "delete_knowledge"} :
         BotEndpoint(caller, op, bot_id, 0)
    \/ \E caller \in {1, 2}, bot_id \in {1, 2},
          op \in {"update_knowledge", "delete_knowledge"}, knowledge_id \in {1, 3} :
         BotEndpoint(caller, op, bot_id, knowledge_id)

SpecOwnership == Init /\ [][NextOwnership]_vars

\* ---------------------------------------------------------------- the REST API: sign-in and bans

\* settings.ACCESS_TOKEN_EXPIRE_MINUTES and settings.REFRESH_TOKEN_EXPIRE_DAYS
AccessTokenExpireMinutes == 30
RefreshTokenExpireDays == 7

\* A token names its subject, its type and its expiry; NoToken stands for a
\* text that is no token.
NoToken == [sub |-> 0, type |-> "none", exp |-> 0]
NoTokenPair == [access |-> NoToken, refresh |-> NoToken]

\* create_token_pair: an access and a refresh token for the user.
CreateTokenPair(user_id, clock) ==
    [access |-> [sub |-> user_id, type |-> "access",
                 exp |-> clock + AccessTokenExpireMinutes],
     refresh |-> [sub |-> user_id, type |-> "refresh",
                  exp |-> clock + RefreshTokenExpireDays * 24 * 60]]

\* verify_token: the subject when the token is of the type asked for and has
\* not expired, else None (0).
VerifyToken(token, token_type, clock) ==
    IF token.type = token_type /\ clock <= token.exp THEN token.sub ELSE 0

\* The row with the id, or none.
UserById(table, user_id) ==
    { u \in 1..Len(table) : table[u].id = user_id }

\* A check of the token alone.
GetCurrentUser_TokenOnly(table, token, clock) ==
    LET user_id == VerifyToken(token, "access", clock)
    IN  IF user_id = 0 \/ UserById(table, user_id) = {} THEN 401 ELSE 200

\* get_current_user: 401 for a token that does not verify or names no user,
\* 403 for a user who is not active, else the user (200).
GetCurrentUser(table, token, clock) ==
    LET user_id == VerifyToken(token, "access", clock)
    IN  IF user_id = 0 THEN 401
        ELSE IF UserById(table, user_id) = {} THEN 401
        ELSE IF ~table[CHOOSE u \in UserById(table, user_id) : TRUE].is_active
        THEN 403
        ELSE 200

\* One more answered request in the log: the user it was about (0 for none),
\* whether that user was banned then, what was presented and what was issued.
Logged(op, user_id, status, presented, password_ok, issued) ==
    /\ Len(api_answered) < MaxApiRequests
    /\ api_answered' =
           Append(api_answered,
                  [op |-> op, user |-> user_id, status |-> status,
                   banned |-> /\ UserById(users, user_id) # {}
                              /\ users[user_id].is_banned,
                   presented |-> presented, password_ok |-> password_ok,
                   issued |-> issued])

\* login: the user by email (401), the password (401), is_active (403), then
\* a token pair.
Login(email, password_ok) ==
    LET found == { u \in 1..Len(users) : users[u].email = email }
        user == users[CHOOSE u \in found : TRUE]
        status == IF found = {} \/ ~password_ok THEN 401
                  ELSE IF ~user.is_active THEN 403 ELSE 200
    IN  /\ Logged("login", IF found = {} THEN 0 ELSE user.id, status, NoToken,
                  password_ok,
                  IF status = 200 THEN CreateTokenPair(user.id, now)
                  ELSE NoTokenPair)
        /\ UNCHANGED <<users, payments, pay_answered, clients, probe, bots,
                       knowledge_base, chat_history, now, next_uuid, received,
                       handler, outbox, answered>>

\* get_me, GET /auth/me, as any endpoint behind get_current_user.
GetMe(token) ==
    /\ Logged("request", VerifyToken(token, "access", now),
              GetCurrentUser(users, token, now), token, FALSE, NoTokenPair)
    /\ UNCHANGED <<users, payments, pay_answered, clients, probe, bots,
                   knowledge_base, chat_history, now, next_uuid, received,
                   handler, outbox, answered>>

\* refresh_token: the refresh token must verify (401) and its user be there
\* and active (401); then a new token pair.
RefreshToken(token) ==
    LET user_id == VerifyToken(token, "refresh", now)
        found == UserById(users, user_id)
        ok == user_id # 0 /\ found # {}
              /\ users[CHOOSE u \in found : TRUE].is_active
    IN  /\ Logged("refresh", user_id, IF ok THEN 200 ELSE 401, token, FALSE,
                  IF ok THEN CreateTokenPair(user_id, now) ELSE NoTokenPair)
        /\ UNCHANGED <<users, payments, pay_answered, clients, probe, bots,
                       knowledge_base, chat_history, now, next_uuid, received,
                       handler, outbox, answered>>

\* ban_user and unban_user, called by a signed-in user: 403 unless the caller
\* is an active admin, 404 for no such user, 400 for banning an admin; else
\* is_banned and is_active are set.
SetBan(admin_id, user_id, ban) ==
    LET found == UserById(users, user_id)
        u == CHOOSE x \in found : TRUE
    IN  /\ users[admin_id].is_active /\ users[admin_id].is_admin
        /\ found # {}
        /\ ~(ban /\ users[u].is_admin)
        /\ users' = [users EXCEPT ![u].is_banned = ban, ![u].is_active = ~ban]
        /\ UNCHANGED <<payments, pay_answered, clients, api_answered, probe, bots,
                       knowledge_base, chat_history, now, next_uuid, received,
                       handler, outbox, answered>>

\* The tokens handed out so far, and a text that is none.
TokensIssued ==
    {NoToken}
    \cup { api_answered[i].issued.access : i \in 1..Len(api_answered) }
    \cup { api_answered[i].issued.refresh : i \in 1..Len(api_answered) }

NextBan ==
    \/ Tick
    \/ \E email \in {"a@x", "b@x", "z@x"}, password_ok \in BOOLEAN :
         Login(email, password_ok)
    \/ \E token \in TokensIssued : GetMe(token)
    \/ \E token \in TokensIssued : RefreshToken(token)
    \/ \E admin_id \in {1, 2}, user_id \in {1, 2}, ban \in BOOLEAN :
         SetBan(admin_id, user_id, ban)

SpecBan == Init /\ [][NextBan]_vars

\* ---------------------------------------------------------------- properties

\* The request the sequential handler holds, and whether its response is ready.
Current == handler["h1"]
Finished == Current.pc = "respond"

\* The request is a text message for an active Telegram bot: the body is an
\* update object whose message (or, without one, edited_message) has a
\* non-empty text, and the token is that of bot 1 or bot 2.
TextOfBody(body) ==
    IF body.kind # "object" THEN EmptyText
    ELSE IF Has(body.payload, "message")
         THEN (IF Has(body.payload.message, "text") THEN body.payload.message.text
               ELSE EmptyText)
    ELSE IF Has(body.payload, "edited_message")
         THEN (IF Has(body.payload.edited_message, "text")
               THEN body.payload.edited_message.text ELSE EmptyText)
    ELSE EmptyText
ForActiveBot(rec) == rec.token \in {"tok1", "tok2"}
IsTextRequest(rec) == ForActiveBot(rec) /\ TextOfBody(rec.body) # EmptyText

\* The sendMessage calls made for request number n.
SendsOf(n) == SelectSeq(outbox, LAMBDA c : c.method = "sendMessage" /\ c.req = n)

\* Rows rows_before+1 and rows_before+2 are the user turn and the assistant
\* turn of the current request, in one session.
StoredBothTurns ==
    /\ Len(chat_history) = Current.rows_before + 2
    /\ LET u == chat_history[Current.rows_before + 1]
           a == chat_history[Current.rows_before + 2]
       IN  /\ u.role = "user" /\ u.content = TextOfBody(Current.body)
           /\ a.role = "assistant" /\ a.content = Current.response
           /\ u.session_id = a.session_id /\ u.session_id # 0
           /\ u.bot_id = Current.bot_id /\ a.bot_id = Current.bot_id
           /\ u.platform_user_id = Current.chat_id
           /\ a.platform_user_id = Current.chat_id

NamedSteps ==
    {"save_inbound", "history", "search", "generate", "save_outbound", "stats",
     "deliver"}

\* C1: a text message processed with no failure (and, the specification being
\* sequential, no concurrent handler) runs save inbound, fetch history, search
\* knowledge, generate, save outbound, bump stats, deliver in that order, adds
\* exactly one user row with the inbound text and then one assistant row with
\* the generated text, both in one session, and raises total_messages by 1.
C1_PipelineOrderAndEffect ==
    (Finished /\ IsTextRequest(Current) /\ Current.failed = {} /\ Current.sent # "False")
    => /\ SelectSeq(Current.trace, LAMBDA x : x \in NamedSteps)
            = <<"save_inbound", "history", "search", "generate", "save_outbound",
                "stats", "deliver">>
       /\ StoredBothTurns
       /\ Current.response \in {Reply, GeminiFallbacks(bots[Current.bot_id].language)}
       /\ bots[Current.bot_id].total_messages = Current.total_before + 1

C1_Witness ==
    /\ Finished /\ IsTextRequest(Current) /\ Current.failed = {}
    /\ Current.sent = "True" /\ Current.response = Reply
    /\ Current.context # NoContext

\* C2: when generation fails, process_message returns the fallback text
\* (settings.fallback_message if set, else the static text of the bot's
\* language), never an empty one; that text is sent to the chat and the
\* webhook answers 200.
C2_Expected(b) ==
    CASE b = 2 -> CustomFallback
      [] OTHER -> <<"Izvinite, ne mogu otvetit seychas. Poprobuyte pozzhe.">>

C3_ReplyAlwaysPersisted ==
    (Finished /\ IsTextRequest(Current)
       /\ Len(chat_history) > Current.rows_before
       /\ Current.failed \subseteq {"generate"})
    => /\ StoredBothTurns
       /\ Len(SendsOf(Current.req)) = 1
       /\ SendsOf(Current.req)[1].text = chat_history[Current.rows_before + 2].content
       /\ bots[Current.bot_id].total_messages = Current.total_before + 1

\* C4: a failing knowledge search does not abort the pipeline: generation is
\* still called, with no context, the assistant turn is stored and the stats
\* are bumped.
C4_SearchFailureContinues ==
    (Finished /\ "search" \in Current.failed)
    => /\ Len(Current.generate_calls) = 1
       /\ Current.generate_calls[1].context = NoContext
       /\ StoredBothTurns
       /\ bots[Current.bot_id].total_messages = Current.total_before + 1

\* C5: every webhook request with a well-formed body is answered 200, whatever
\* the token, the payload or an internal failure; only a malformed body may
\* get a 400.
C5_WebhookAlwaysOk ==
    Finished => /\ (Current.body.kind # "malformed" => Current.status = 200)
                /\ (Current.status # 200 => Current.status = 400)

\* The stored rows of one (bot, user) pair, in insertion order.
PairRows(bot_id, chat_id) ==
    SelectSeq(chat_history,
              LAMBDA r : r.bot_id = bot_id /\ r.platform_user_id = chat_id)

SessionsInUse == {chat_history[i].session_id : i \in DOMAIN chat_history}

\* C6: in sequential processing the session resolved for a (bot, user) pair is
\* the session of the pair's most recent stored row when that row is less than
\* 30 minutes old, and otherwise one that no stored row uses; so a user turn
\* stored less than 30 minutes after the pair's previous row shares its session
\* and one stored 30 or more minutes after it (31 and more included) does not.
C6_SessionResolution ==
    /\ Current.pc = "save_inbound" =>
         LET rows == PairRows(Current.bot_id, Current.chat_id)
         IN  IF rows # << >> /\ now - rows[Len(rows)].created_at < 30
             THEN Current.session_id = rows[Len(rows)].session_id
             ELSE Current.session_id \notin SessionsInUse
    /\ \A b \in BotIds, c \in ChatIds :
         LET rows == PairRows(b, c)
         IN  \A i \in 2..Len(rows) :
                rows[i].role = "user" =>
                   IF rows[i].created_at - rows[i - 1].created_at < 30
                   THEN rows[i].session_id = rows[i - 1].session_id
                   ELSE \A j \in 1..(i - 1) : rows[j].session_id # rows[i].session_id

C6_Witness ==
    /\ Current.pc = "save_inbound"
    /\ LET rows == PairRows(Current.bot_id, Current.chat_id)
       IN  /\ rows # << >>
           /\ now - rows[Len(rows)].created_at >= 31
           /\ Current.session_id # rows[Len(rows)].session_id

\* The user rows and the assistant rows stored for one chat of one bot.
UserRows(bot_id, chat_id, text) ==
    SelectSeq(PairRows(bot_id, chat_id),
              LAMBDA r : r.role = "user" /\ r.content = text)
AssistantRows(bot_id, chat_id) ==
    SelectSeq(PairRows(bot_id, chat_id), LAMBDA r : r.role = "assistant")

\* An earlier request with the token and the body of the current one, which
\* stored both of its turns.
IsEarlierDelivery(i) ==
    /\ answered[i].token = Current.token
    /\ answered[i].body = Current.body
    /\ answered[i].rows_after = answered[i].rows_before + 2

\* C8: the identical text update delivered a second time runs the full
\* pipeline again: with the first delivery's two rows stored and no failure in
\* the second, there are two user rows and two assistant rows, total_messages
\* is up by one for each delivery, and each delivery had its reply sent;
\* nothing is skipped for an update id or message id seen before.
C8_ReplayProcessedTwice ==
    \A i \in DOMAIN answered :
        (Finished /\ IsTextRequest(Current) /\ Current.failed = {}
           /\ Current.sent # "False" /\ IsEarlierDelivery(i))
        => /\ StoredBothTurns
           /\ Len(UserRows(Current.bot_id, Current.chat_id, TextOfBody(Current.body))) >= 2
           /\ Len(AssistantRows(Current.bot_id, Current.chat_id)) >= 2
           /\ answered[i].total_after = answered[i].total_before + 1
           /\ Current.total_before >= answered[i].total_after
           /\ bots[Current.bot_id].total_messages = Current.total_before + 1
           /\ Len(SendsOf(answered[i].req)) = 1
           /\ Len(SendsOf(Current.req)) = 1

C8_Witness ==
    /\ Finished /\ IsTextRequest(Current) /\ Current.failed = {}
    /\ Current.sent = "True"
    /\ \E i \in DOMAIN answered : IsEarlierDelivery(i)
    /\ bots[Current.bot_id].total_messages = 2

\* The update carries no text to process: a message without text or with an
\* empty one, or no message, edited_message or callback_query at all.
IsTextless(body) ==
    /\ body.kind = "object"
    /\ TextOfBody(body) = EmptyText
    /\ ~Has(body.payload, "callback_query")

\* C9: an update without text, sent to an active bot, leaves chat history and
\* the bot's counters as they were, calls neither the generation backend nor
\* the Telegram API, and is answered 200.
C9_TextlessUpdateIsNoOp ==
    (Finished /\ ForActiveBot(Current) /\ IsTextless(Current.body))
    => /\ Len(chat_history) = Current.rows_before
       /\ bots[Current.bot_id].total_messages = Current.total_before
       /\ Current.generate_calls = << >>
       /\ \A k \in DOMAIN outbox : outbox[k].req # Current.req
       /\ Current.status = 200

C9_Witness ==
    /\ Finished /\ ForActiveBot(Current)
    /\ Current.body.kind = "object"
    /\ Has(Current.body.payload, "message")
    /\ ~Has(Current.body.payload.message, "text")
    /\ Len(chat_history) > 0

\* C10: when the sendMessage call made for a processed message does not
\* succeed, send_message returns False without raising, the rows and the stats bump stay, the webhook
\* answers 200 and the delivery is tried once only.
C10_DeliveryFailureKeepsRecord ==
    (Finished /\ IsTextRequest(Current) /\ Current.failed = {}
       /\ Len(SendsOf(Current.req)) > 0 /\ Current.sent # "True")
    => /\ Current.sent = "False"
       /\ StoredBothTurns
       /\ bots[Current.bot_id].total_messages = Current.total_before + 1
       /\ Current.status = 200
       /\ Len(SendsOf(Current.req)) = 1

C10_Witness ==
    /\ Finished /\ IsTextRequest(Current) /\ Current.failed = {}
    /\ Current.sent = "False" /\ Current.status = 200

\* C7: recent_history(bot, user, limit) returns the `limit` most recently
\* stored turns of that pair and of no other bot or user, oldest first: the
\* last min(limit, n) of the pair's n rows in the order they were inserted.
C7_HistoryOldestFirst ==
    probe.op = "recent_history" =>
        LET rows == PairRows(probe.bot_id, probe.chat_id)
            n == Len(rows)
            k == IF probe.limit < n THEN probe.limit ELSE n
        IN  probe.result =
               [i \in 1..k |-> [role |-> rows[n - k + i].role,
                                content |-> rows[n - k + i].content]]

C7_Witness ==
    /\ probe.op = "recent_history"
    /\ Len(PairRows(probe.bot_id, probe.chat_id)) = 2
    /\ Len(chat_history) = 3
    /\ probe.limit = HistoryLimit
    /\ probe.result = <<[role |-> "user", content |-> Hi],
                        [role |-> "assistant", content |-> Reply]>>
    /\ chat_history[1].created_at < chat_history[3].created_at

\* ---------------------------------------------------------------- properties of the payment providers

\* C11: ClickProvider.verify_webhook(payload, sign_string) returns true exactly
\* when sign_string is the MD5 hex digest of click_trans_id + service_id +
\* secret key + merchant_trans_id + amount + action + sign_time, each field
\* coerced to a string and a missing field counting as the empty string; a
\* signature computed over the same parts in another order is rejected
\* whenever the reordered concatenation is a different string.
C11_ClickSignatureExact ==
    probe.op = "click_verify" =>
        LET documented == ConcatInOrder(probe.payload, ClickSecretKey,
                                        DocumentedOrder)
        IN  /\ probe.result = (probe.signature = Md5HexDigest(documented))
            /\ \A order \in SignOrders :
                 LET reordered == ConcatInOrder(probe.payload, ClickSecretKey,
                                                order)
                 IN  (probe.signature = Md5HexDigest(reordered)
                      /\ reordered # documented) => ~probe.result

\* A signature over a reordering is refused for a payload that has an int
\* field and a missing field.
C11_Witness ==
    /\ probe.op = "click_verify"
    /\ ~probe.result
    /\ ~Has(probe.payload, "sign_time")
    /\ Has(probe.payload, "amount") /\ probe.payload["amount"] = IntValue(2)
    /\ \E order \in SignOrders \ {DocumentedOrder} :
         probe.signature = Md5HexDigest(ConcatInOrder(probe.payload,
                                                      ClickSecretKey, order))

\* C13: ClickProvider.handle_webhook answers action 0 with the prepare echo,
\* action 1 with the complete echo (the ids of the payload, error 0, error_note
\* "Success") and every other action value with error -3 "Invalid action"; an
\* exception raised inside a handler becomes error -9 with the exception's
\* message and does not propagate.
C13_ClickDispatch ==
    probe.op = "click_handle" =>
        LET payload == probe.payload
            action == Get(payload, "action")
            returned == probe.fault = NoFault
        IN  /\ (action = IntValue(0) /\ returned) =>
                 probe.result =
                     [click_trans_id |-> Get(payload, "click_trans_id"),
                      merchant_trans_id |-> Get(payload, "merchant_trans_id"),
                      merchant_prepare_id |-> Get(payload, "merchant_trans_id"),
                      error |-> 0, error_note |-> "Success"]
            /\ (action = IntValue(1) /\ returned) =>
                 probe.result =
                     [click_trans_id |-> Get(payload, "click_trans_id"),
                      merchant_trans_id |-> Get(payload, "merchant_trans_id"),
                      merchant_confirm_id |-> Get(payload, "merchant_trans_id"),
                      error |-> 0, error_note |-> "Success"]
            /\ (action \in {IntValue(0), IntValue(1)} /\ ~returned) =>
                 probe.result = [error |-> -9, error_note |-> probe.fault]
            /\ action \notin {IntValue(0), IntValue(1)} =>
                 probe.result = [error |-> -3, error_note |-> "Invalid action"]

\* The complete handler raised and the caller got error -9 with its message.
C13_Witness ==
    /\ probe.op = "click_handle"
    /\ Get(probe.payload, "action") = IntValue(1)
    /\ probe.fault # NoFault
    /\ probe.result = [error |-> -9, error_note |-> probe.fault]

\* C15: every response of PayMeProvider.handle_webhook is a JSON-RPC 2.0
\* envelope that echoes the request's id and holds exactly one of result and
\* error: a known method yields a result, and on well-formed params always
\* does; any other method yields error -32601; an exception raised inside a
\* method handler yields error -31001 with uz, ru and en messages.
C15_PaymeEnvelope ==
    probe.op = "payme_handle" =>
        LET payload == probe.payload
            response == probe.result
            method == Get(payload, "method")
            known == Has(method, "str") /\ method.str \in PaymeMethods
            well_formed ==
                \/ ~Has(payload, "params")
                \/ /\ IsDict(payload.params)
                   /\ Has(payload.params.dict, "account") =>
                        IsDict(payload.params.dict.account)
            failed == /\ Has(response, "error")
                      /\ response.error.code = -31001
                      /\ DOMAIN response.error.message = {"uz", "ru", "en"}
        IN  /\ response.jsonrpc = "2.0"
            /\ response.id = Get(payload, "id")
            /\ DOMAIN response \in {{"jsonrpc", "id", "result"},
                                    {"jsonrpc", "id", "error"}}
            /\ known => (Has(response, "result") \/ failed)
            /\ (known /\ well_formed) => Has(response, "result")
            /\ (known /\ Has(payload, "params") /\ ~IsDict(payload.params)) => failed
            /\ ~known => (Has(response, "error") /\ response.error.code = -32601)

\* CreateTransaction with params null: the handler's AttributeError came back
\* as error -31001 under the request's id.
C15_Witness ==
    /\ probe.op = "payme_handle"
    /\ Get(probe.payload, "method") = TextValue("CreateTransaction")
    /\ Get(probe.payload, "params") = NoneValue
    /\ Get(probe.payload, "id") = IntValue(2)
    /\ probe.result.id = IntValue(2)
    /\ Has(probe.result, "error")
    /\ probe.result.error.code = -31001

\* ---------------------------------------------------------------- properties of the payment webhooks

\* The answered calls of the Click endpoints and of the PayMe endpoint whose
\* request and response the log holds in full.
ClickAnswers ==
    { i \in 1..Len(pay_answered) :
        /\ pay_answered[i].endpoint \in {"click/prepare", "click/complete"}
        /\ pay_answered[i].detail # EmptyDict }
PaymeAnswers ==
    { i \in 1..Len(pay_answered) :
        /\ pay_answered[i].endpoint = "payme"
        /\ pay_answered[i].detail # EmptyDict }

\* The form's sign_string is the MD5 digest over the form's fields in the
\* documented order.
WellSigned(fields) ==
    /\ Has(fields, "sign_string")
    /\ fields["sign_string"] =
           Md5HexDigest(ConcatInOrder(fields, ClickSecretKey, DocumentedOrder))

\* C12: a Click prepare or complete request whose sign_string fails
\* verification is answered exactly {error: -1, error_note: "Sign check
\* failed"}; the provider's handle_webhook is not invoked for it and no Payment
\* row is created or changed.
C12_BadSignatureRefused ==
    \A i \in ClickAnswers :
        LET call == pay_answered[i].detail
        IN  (call.body.kind = "form" /\ ~WellSigned(call.body.fields)) =>
                /\ call.response = [error |-> -1, error_note |-> "Sign check failed"]
                /\ ~call.handled
                /\ call.payments_after = call.payments_before

\* A prepare request about the order of a pending payment, signed under
\* another secret, was refused.
C12_Witness ==
    \E i \in ClickAnswers :
        LET call == pay_answered[i].detail
        IN  /\ pay_answered[i].endpoint = "click/prepare"
            /\ call.body.kind = "form"
            /\ Has(call.body.fields, "sign_string")
            /\ call.body.fields["sign_string"] # EmptyText
            /\ ~WellSigned(call.body.fields)
            /\ Len(call.payments_before) > 0
            /\ call.response.error = -1

\* The code of an ASCII character and bit k (0 the lowest) of a number.
AsciiCodes ==
    [c \in AsciiChars |-> (CHOOSE i \in 1..95 : PrintableAscii[i] = c) + 31]
Ord(c) == AsciiCodes[c]
Bit(n, k) == (n \div (2 ^ k)) % 2

\* text is base64 for expected: its alphabet characters before the padding
\* spell, six bits each, the bits of expected's bytes, and a last group of two
\* or three characters is filled up to four by the padding.
IsBase64Of(text, expected) ==
    LET first_pad == IF \E i \in 1..Len(text) : text[i] = "="
                     THEN CHOOSE i \in 1..Len(text) :
                              /\ text[i] = "="
                              /\ \A j \in 1..(i - 1) : text[j] # "="
                     ELSE Len(text) + 1
        data == SelectSeq(SubSeq(text, 1, first_pad - 1), IsBase64Char)
        padding == Cardinality({ i \in 1..Len(text) : text[i] = "=" })
    IN  /\ (Len(data) % 4) # 1
        /\ (Len(data) % 4) = 0 \/ (Len(data) % 4) + padding >= 4
        /\ Len(expected) = (Len(data) * 6) \div 8
        /\ \A b \in 0..(8 * Len(expected) - 1) :
             Bit(Ord(expected[(b \div 8) + 1]), 7 - (b % 8))
                 = Bit(Base64Value(data[(b \div 6) + 1]), 5 - (b % 6))

\* The header is "Basic " followed by base64 text for "Paycom:" + secret key.
IsMerchantHeader(authorization) ==
    /\ Len(authorization) >= 6
    /\ SubSeq(authorization, 1, 6) = <<"B", "a", "s", "i", "c", " ">>
    /\ IsBase64Of(SubSeq(authorization, 7, Len(authorization)),
                  <<"P", "a", "y", "c", "o", "m", ":">> \o PaymeSecretKey)

\* C14: PayMeProvider.verify_webhook returns true exactly when the
\* Authorization header is "Basic " followed by base64 text that decodes to
\* "Paycom:" + the configured secret key; for every other header (missing,
\* other scheme, undecodable, wrong secret) it returns false, and the PayMe
\* webhook then answers a JSON-RPC request with error -32504 under the
\* request's id without executing the requested method.
C14_PaymeAuthorization ==
    \A i \in PaymeAnswers :
        LET call == pay_answered[i].detail
        IN  /\ call.verified = IsMerchantHeader(call.authorization)
            /\ (call.body.kind = "object" /\ ~IsMerchantHeader(call.authorization)) =>
                 /\ call.status = 200
                 /\ call.response.jsonrpc = "2.0"
                 /\ call.response.id = Get(call.body.payload, "id")
                 /\ DOMAIN call.response = {"jsonrpc", "id", "error"}
                 /\ call.response.error.code = -32504
                 /\ ~call.handled
                 /\ call.payments_after = call.payments_before

\* PerformTransaction under a "Basic " header whose credentials lost their
\* padding, which base64 cannot decode: refused with -32504, nothing executed.
C14_Witness ==
    \E i \in PaymeAnswers :
        LET call == pay_answered[i].detail
        IN  /\ call.authorization =
                   BasicPrefix \o SubSeq(GoodCredentials, 1, Len(GoodCredentials) - 1)
            /\ call.body.kind = "object"
            /\ ~call.verified
            /\ call.response.error.code = -32504
            /\ ~call.handled

\* The PayMe calls that executed a method, and those about transaction t
\* before call i.
PaymeExecuted ==
    { i \in 1..Len(pay_answered) :
        pay_answered[i].endpoint = "payme" /\ pay_answered[i].method # "" }
EarlierAbout(i) ==
    { j \in PaymeExecuted :
        j < i /\ pay_answered[j].transaction = pay_answered[i].transaction }

\* C16: for any sequence of PayMe webhook calls about one transaction id the
\* reported states follow created (1), then completed (2) or cancelled (-1):
\* PerformTransaction reports 2 only for a transaction that was created and
\* not cancelled, no call reports 1 or 2 after CancelTransaction reported -1,
\* and CheckTransaction reports the state of the latest transition.
C16_PaymeLifecycle ==
    \A i \in PaymeExecuted :
        LET call == pay_answered[i]
            transitions ==
                { j \in EarlierAbout(i) :
                    pay_answered[j].method \in {"CreateTransaction",
                                                "PerformTransaction",
                                                "CancelTransaction"} }
        IN  /\ (call.method = "PerformTransaction" /\ call.state = 2) =>
                 /\ \E j \in EarlierAbout(i) :
                      /\ pay_answered[j].method = "CreateTransaction"
                      /\ pay_answered[j].state = 1
                 /\ \A j \in EarlierAbout(i) : pay_answered[j].state # -1
            /\ (\E j \in EarlierAbout(i) : pay_answered[j].state = -1) =>
                 call.state \notin {1, 2}
            /\ (call.method = "CheckTransaction" /\ transitions # {}) =>
                 call.state =
                     pay_answered[CHOOSE j \in transitions :
                                      \A k \in transitions : k <= j].state

\* The Payment rows an order id names: by row id or by transaction id.
PaymentsNamed(table, order_id) ==
    { k \in 1..Len(table) :
        table[k].id = order_id \/ table[k].transaction_id = order_id }

\* C17: PayMe CheckPerformTransaction returns allow: true only when the
\* account's order_id names an existing Payment and the amount equals that
\* Payment's amount.
C17_CheckPerformValidates ==
    \A i \in PaymeAnswers :
        LET call == pay_answered[i].detail
            params == call.body.payload.params.dict
        IN  (/\ pay_answered[i].method = "CheckPerformTransaction"
             /\ Has(call.response, "result")
             /\ call.response.result.allow) =>
                \E k \in PaymentsNamed(call.payments_before,
                                       params.account.dict.order_id.int) :
                    call.payments_before[k].amount = params.amount.int

\* The paying user's row carries the plan of payment row k.
SubscriptionActivated(k) ==
    \E u \in 1..Len(users) :
        /\ users[u].id = payments[k].user_id
        /\ users[u].subscription_type = payments[k].subscription_type
        /\ users[u].subscription_expires_at # -1

\* C18: after a PayMe PerformTransaction or a Click Complete webhook has been
\* answered with success for an order, the matching Payment row has status
\* completed and the paying user's subscription tier and expiry are set to the
\* purchased plan.
C18_CompletionActivates ==
    /\ \A i \in PaymeAnswers :
         LET call == pay_answered[i].detail
             named == PaymentsNamed(
                          payments,
                          call.body.payload.params.dict.account.dict.order_id.int)
         IN  (/\ pay_answered[i].method = "PerformTransaction"
              /\ pay_answered[i].state = 2
              /\ named # {}) =>
                 \E k \in named :
                     payments[k].status = "completed" /\ SubscriptionActivated(k)
    /\ \A i \in ClickAnswers :
         LET call == pay_answered[i].detail
             named == { k \in 1..Len(payments) :
                          IntToText(payments[k].id)
                              = Str(call.body.fields["merchant_trans_id"]) }
         IN  (/\ pay_answered[i].endpoint = "click/complete"
              /\ call.handled
              /\ call.response.error = 0
              /\ named # {}) =>
                 \E k \in named :
                     payments[k].status = "completed" /\ SubscriptionActivated(k)

\* C19: no two bots hold the same token, whatever the sequence or interleaving
\* of create_bot and update_bot_token requests, and a request that brings a
\* token held by another bot is answered 400 (unless it was refused before the
\* token was looked at: bot limit, bot not found).
C19_TokensUnique ==
    /\ \A a, b \in DOMAIN bots : a # b => bots[a].token # bots[b].token
    /\ \A i \in 1..Len(api_answered) :
         LET e == api_answered[i]
         IN  (e.req.op \in {"create_bot", "update_bot_token"} /\ e.clash
              /\ e.status \notin {402, 404})
                 => e.status = 400

\* C20: a registration whose email or lower-cased username is held by an
\* existing user (both by one user, or each by a different one) is answered
\* 400, and no two users share an email or a username.
C20_DuplicateRegistrationRefused ==
    /\ \A u, v \in 1..Len(users) :
         u # v => /\ users[u].email # users[v].email
                  /\ users[u].username # users[v].username
    /\ \A i \in 1..Len(api_answered) :
         LET e == api_answered[i]
         IN  (e.req.op = "register" /\ e.clash) => e.status = 400

\* C21: send_message issues the text, image and voice calls independently: the
\* image and the voice call are issued whenever the response has them,
\* whichever other call fails; it never raises, and it returns False when
\* sendMessage fails.
C21_IndependentCalls ==
    probe.op = "send_message" =>
        LET issued == SeqToSet(probe.result.calls)
            has(k) == Has(probe.response, k) /\ probe.response[k] # ""
        IN  /\ ~probe.result.raised
            /\ "sendMessage" \in issued
            /\ "sendMessage" \in probe.failing => ~probe.result.returned
            /\ has("image_url") => "sendPhoto" \in issued
            /\ has("audio_url") => "sendVoice" \in issued

\* C22: the image of a message with photos is the variant with the largest
\* file_size (none counts as 0), and among several with the largest, the last
\* in list order.
C22_LargestPhotoLastWins ==
    (probe.op = "decode" /\ Has(probe.message_data, "photo")
     /\ probe.message_data.photo # << >>) =>
        LET photos == probe.message_data.photo
            largest == { i \in 1..Len(photos) :
                           \A j \in 1..Len(photos) :
                               FileSizeKey(photos[j]) <= FileSizeKey(photos[i]) }
            chosen == CHOOSE i \in largest : \A j \in largest : j <= i
        IN  probe.result = [image_url |-> <<"file:", photos[chosen].file_id>>]

\* The context a list of knowledge ids renders to (an item's content is never
\* rewritten in these runs, so an id names one rendering).
RenderedFrom(ids) ==
    LET catalogue == InitialKnowledge \o <<NewKnowledge>>
    IN  IF ids = << >> THEN NoContext
        ELSE JoinParts([i \in 1..Len(ids) |-> RenderItem(catalogue[ids[i]])])

\* C23: the context_ids stored on an assistant turn are the ids of the items
\* rendered into the context of the turn's generation call, also when the
\* bot's knowledge changes while generation runs.
C23_ContextIdsMatchContext ==
    \A h \in Handlers :
        LET rec == handler[h]
        IN  (rec.pc \in {"stats", "send", "respond"}
             /\ "save_outbound" \in SeqToSet(rec.trace)) =>
                /\ \E i \in 1..Len(chat_history) :
                     /\ chat_history[i].role = "assistant"
                     /\ chat_history[i].session_id = rec.session_id
                     /\ chat_history[i].context_ids = rec.context_ids
                /\ rec.generate_calls[Len(rec.generate_calls)].context
                       = RenderedFrom(rec.context_ids)

\* C24: each handler writes the total it read when it looked the bot up, plus
\* one, whatever was written meanwhile; after n handlers completed, the bot's
\* total_messages is at least 1 and at most n higher than at the start.
C24_StatsReadModifyWrite ==
    /\ \A i \in 1..Len(answered) :
         answered[i].total_after = answered[i].total_before + 1
    /\ (NoneActive /\ answered # << >>) =>
         /\ bots[1].total_messages >= InitialBots[1].total_messages + 1
         /\ bots[1].total_messages <= InitialBots[1].total_messages + Len(answered)

\* Two handlers ran every step at the same time and the total grew by 1.
C24_Witness ==
    /\ NoneActive
    /\ Len(answered) = 2
    /\ \A i \in 1..2 : answered[i].status = 200 /\ answered[i].total_before = 0
    /\ Len(chat_history) = 4
    /\ bots[1].total_messages = InitialBots[1].total_messages + 1

\* C25: two handlers of one (bot, user) that have both resolved their session
\* before either stored its inbound turn, with no row of the pair in the last
\* 30 minutes, hold different session ids, and each stores its turn under its
\* own.
C25_SessionRace ==
    /\ \A h, g \in Handlers :
         (/\ h # g
          /\ handler[h].pc = "save_inbound" /\ handler[g].pc = "save_inbound"
          /\ handler[h].bot_id = handler[g].bot_id
          /\ handler[h].chat_id = handler[g].chat_id
          /\ \A i \in 1..Len(chat_history) :
               (chat_history[i].bot_id = handler[h].bot_id
                /\ chat_history[i].platform_user_id = handler[h].chat_id)
                   => chat_history[i].created_at <= now - SessionWindowMinutes)
             => handler[h].session_id # handler[g].session_id
    /\ \A h \in Handlers :
         "save_inbound" \in SeqToSet(handler[h].trace) =>
             \E i \in 1..Len(chat_history) :
                 /\ chat_history[i].role = "user"
                 /\ chat_history[i].bot_id = handler[h].bot_id
                 /\ chat_history[i].platform_user_id = handler[h].chat_id
                 /\ chat_history[i].session_id = handler[h].session_id

\* Two inbound turns of one (bot, user), stored at the same minute by two
\* handlers at work, under different session ids.
C25_Witness ==
    /\ \A h \in Handlers : "save_inbound" \in SeqToSet(handler[h].trace)
    /\ handler["h1"].session_id # handler["h2"].session_id
    /\ \E i, j \in 1..Len(chat_history) :
         /\ chat_history[i].role = "user" /\ chat_history[j].role = "user"
         /\ chat_history[i].bot_id = chat_history[j].bot_id
         /\ chat_history[i].platform_user_id = chat_history[j].platform_user_id
         /\ chat_history[i].created_at = chat_history[j].created_at
         /\ chat_history[i].session_id # chat_history[j].session_id

\* C26: a Click request is processed as Prepare at /click/prepare, and as
\* Complete at /click/complete, only when the signature verified for it was
\* computed over that action value (0 for prepare, 1 for complete).
C26_SignedActionIsProcessedAction ==
    \A i \in ClickAnswers :
        LET call == pay_answered[i].detail
        IN  call.handled =>
                StrField(call.body.fields, "action")
                    = (IF pay_answered[i].endpoint = "click/prepare"
                       THEN <<"0">> ELSE <<"1">>)

\* What a cancel_payment call found: the rows with the id that the caller owns.
CancelTargets ==
    { i \in 1..Len(probe.before) :
        /\ probe.before[i].id = probe.payment_id
        /\ probe.before[i].user_id = probe.user_id }

\* The answer and the effect of the last cancel_payment call.
CancelAnswersRight ==
    probe.op = "cancel_payment" =>
        IF CancelTargets = {}
        THEN probe.status = 404 /\ probe.after = probe.before
        ELSE LET i == CHOOSE x \in CancelTargets : TRUE
             IN  IF probe.before[i].status # "pending"
                 THEN probe.status = 400 /\ probe.after = probe.before
                 ELSE /\ probe.status = 200
                      /\ probe.after = [probe.before EXCEPT ![i].status = "cancelled"]

\* A step keeps every payment row, its owner and its amount, and changes a
\* status from pending to cancelled only.
PaymentsStep ==
    /\ Len(payments') >= Len(payments)
    /\ \A i \in 1..Len(payments) :
         /\ payments'[i].amount = payments[i].amount
         /\ payments'[i].user_id = payments[i].user_id
         /\ payments'[i].status # payments[i].status =>
              payments[i].status = "pending" /\ payments'[i].status = "cancelled"

\* C27: cancel_payment sets a pending payment of the caller cancelled and
\* answers 400 for one in another status, 404 for a missing one or one of
\* another user, leaving the rows as they were; no operation moves a cancelled
\* payment back to pending or changes the amount of a payment.
C27_CancelOnlyOwnPending == []CancelAnswersRight /\ [][PaymentsStep]_vars

\* A user cancelled their own pending payment.
C27_Witness ==
    /\ probe.op = "cancel_payment"
    /\ probe.status = 200
    /\ \E i \in 1..Len(payments) :
         /\ payments[i].id = probe.payment_id
         /\ payments[i].user_id = probe.user_id
         /\ probe.before[i].status = "pending"
         /\ payments[i].status = "cancelled"
         /\ payments[i].amount = probe.before[i].amount

\* C28: an endpoint that takes a bot_id reads or changes that bot and its
\* knowledge items only when the bot is the caller's; for a bot of another
\* user, or one deleted before, it answers 404 and changes nothing; and what it
\* changes for the caller's bot is that bot and its items only.
C28_OnlyOwnBots ==
    probe.op \in BotOperations =>
        LET owned == /\ probe.bot_id \in DOMAIN probe.bots_before
                     /\ probe.bots_before[probe.bot_id].user_id = probe.caller
            others(table) == SelectSeq(table, LAMBDA k : k.bot_id # probe.bot_id)
        IN  /\ ~owned =>
                 /\ probe.status = 404
                 /\ probe.read = {}
                 /\ bots = probe.bots_before
                 /\ knowledge_base = probe.knowledge_before
            /\ \A b \in DOMAIN probe.bots_before \ {probe.bot_id} :
                 b \in DOMAIN bots /\ bots[b] = probe.bots_before[b]
            /\ others(knowledge_base) = others(probe.knowledge_before)

\* A user asked to delete the bot of another user: 404, the bot is still there.
C28_Witness ==
    /\ probe.op = "delete_bot"
    /\ probe.bot_id \in DOMAIN bots
    /\ bots[probe.bot_id].user_id # probe.caller
    /\ probe.status = 404

\* The bots a user owns.
BotsOf(user_id) == { b \in DOMAIN bots : bots[b].user_id = user_id }

\* C29: a user never owns more bots than the plan allows (free 1, starter 3,
\* basic 10, premium 50), whatever the sequence or interleaving of create_bot
\* requests, and a create_bot of a user at the limit is answered 402.
C29_BotLimitKept ==
    /\ \A u \in 1..Len(users) :
         Cardinality(BotsOf(users[u].id)) <= BotLimit(users[u].subscription_type)
    /\ \A i \in 1..Len(api_answered) :
         api_answered[i].at_limit => api_answered[i].status = 402

\* C30: while a user is banned, a request that carries a valid access token of
\* the user is answered 403, also a token issued before the ban; a login with
\* the right password is refused with 403 and issues nothing; a refresh token
\* yields no new token pair; and a banned user is never active.
C30_BannedUserLockedOut ==
    /\ \A u \in 1..Len(users) : users[u].is_banned => ~users[u].is_active
    /\ \A i \in 1..Len(api_answered) :
         LET e == api_answered[i]
         IN  e.banned =>
                 /\ e.issued = NoTokenPair
                 /\ e.op = "request" => e.status = 403
                 /\ (e.op = "login" /\ e.password_ok) => e.status = 403
                 /\ e.op = "refresh" => e.status = 401

\* A user signed in, was banned, and was refused with the access token of
\* that sign-in.
C30_Witness ==
    \E i, j \in 1..Len(api_answered) :
        /\ i < j
        /\ api_answered[i].op = "login" /\ api_answered[i].status = 200
        /\ api_answered[j].op = "request"
        /\ api_answered[j].presented = api_answered[i].issued.access
        /\ api_answered[j].banned
        /\ api_answered[j].status = 403
        /\ users[api_answered[j].user].is_banned

====
